---- MODULE Spec2Model ----
(***************************************************************************)
(* Model of the customer-support email agent (numeo-ai-task).              *)
(*                                                                         *)
(* The state is the database tables (emails, unhandled_emails, orders,     *)
(* refund_requests, not_found_refund_requests), the Gmail mailbox (the     *)
(* unread label of each message), and the coroutines that run              *)
(* EmailProcessor.process_user_emails: the periodic scheduler and the      *)
(* manual /process trigger.  Both run on one asyncio event loop, so they   *)
(* interleave at the awaits; one action below is one segment of a          *)
(* coroutine that ends at such an await.                                   *)
(*                                                                         *)
(* The language model, the vector store and the Gmail API are external:    *)
(* their answers are chosen nondeterministically from the outcomes the     *)
(* calling code distinguishes.                                             *)
(***************************************************************************)
EXTENDS Integers, Sequences, FiniteSets, TLC

\* ------------------------------------------------------------- bounds
\* passes of process_user_emails started over the whole run
MaxPasses == 2
\* times the whole process may be interrupted and restarted
MaxCrashes == 1
\* iterations of the while loop of continuous_email_processing
MaxRounds == 2
\* length of the headers extract_email_address is tried on
MaxHeaderLen == 7
\* length of the texts the knowledge ingestion is tried on
MaxTextLen == 7
\* the chunk_size given to add_knowledge_from_text, on the scale of the
\* texts tried
ChunkSize == 3

\* ---------------------------------------------------------- constants
Tasks == {"sched", "manual"}
Users == {"u1", "u2"}
MsgIds == {"m1", "m2"}

NoOrderId == "NONE"
ValidOrderId == "ORD001"
InvalidOrderId == "XYZ999"
ExtractedIds == {NoOrderId, ValidOrderId, InvalidOrderId}

\* models.py enumerations
QUESTION == "question"
REFUND == "refund"
OTHERS == "other"
EmailCategory == {QUESTION, REFUND, OTHERS}
LOW == "low"
MEDIUM == "medium"
HIGH == "high"
ImportanceLevel == {LOW, MEDIUM, HIGH}
NullStatus == "null"
REQUESTED == "requested"
PROCESSING == "processing"
COMPLETED == "completed"
RefundStatus == {REQUESTED, PROCESSING, COMPLETED}
\* timestamps: null, a time before the run, the time the run starts
NullTime == 0
EarlierTime == 1
StartTime == 2

\* A header is a sequence of characters.  The characters below are the
\* ones the two patterns of extract_email_address tell apart; every other
\* character stands for one of the class [\w\.-].
NonAddrChars == {"@", "<", ">", " "}
IsAddrChar(c) == c \notin NonAddrChars

\* The mailboxes: for each message id its owning user's mailbox, its From
\* header and its body.
Mailbox ==
    [m \in MsgIds |->
        IF m = "m1"
        THEN [user |-> "u1",
              sender |-> <<"J", " ", "<", "c", "@", "x", ">">>,
              body |-> "body-m1"]
        ELSE [user |-> "u2",
              sender |-> <<"c", "@", "x">>,
              body |-> "body-m2"]]

\* the least and the greatest of a set of numbers
Least(S) == CHOOSE x \in S : \A y \in S : x <= y
Greatest(S) == CHOOSE x \in S : \A y \in S : y <= x

\* re.search(r'<(.+@.+)>', h): the ways the pattern matches, as the
\* positions <<i, k, j>> of its "<", its "@" and its ">"
AngleMatches(h) ==
    {p \in (1..Len(h)) \X (1..Len(h)) \X (1..Len(h)) :
        /\ h[p[1]] = "<" /\ h[p[2]] = "@" /\ h[p[3]] = ">"
        /\ p[1] + 1 < p[2]
        /\ p[2] + 1 < p[3]}
\* group(1) of the match re.search returns: the leftmost start, then the
\* longest first ".+", then the longest second ".+"
AngleGroup(h) ==
    LET i == Least({p[1] : p \in AngleMatches(h)})
        k == Greatest({p[2] : p \in {q \in AngleMatches(h) : q[1] = i}})
        j == Greatest({p[3] : p \in {q \in AngleMatches(h) :
                                        q[1] = i /\ q[2] = k}})
    IN SubSeq(h, i + 1, j - 1)

\* re.search(r'[\w\.-]+@[\w\.-]+', h): the ways the pattern matches, as
\* the positions <<i, k, e>> of its first character, its "@" and its last
\* character
BareMatches(h) ==
    {p \in (1..Len(h)) \X (1..Len(h)) \X (1..Len(h)) :
        /\ p[1] < p[2] /\ p[2] < p[3]
        /\ h[p[2]] = "@"
        /\ \A x \in p[1]..(p[2] - 1) : IsAddrChar(h[x])
        /\ \A x \in (p[2] + 1)..p[3] : IsAddrChar(h[x])}
\* group(0) of the match re.search returns
BareGroup(h) ==
    LET i == Least({p[1] : p \in BareMatches(h)})
        e == Greatest({p[3] : p \in {q \in BareMatches(h) : q[1] = i}})
    IN SubSeq(h, i, e)

\* extract_email_address that returns an empty string when neither pattern
\* matches
extract_email_address_NoFallback(from_header) ==
    IF AngleMatches(from_header) # {} THEN AngleGroup(from_header)
    ELSE IF BareMatches(from_header) # {} THEN BareGroup(from_header)
    ELSE <<>>

\* EmailProcessor.extract_email_address
extract_email_address(from_header) ==
    IF AngleMatches(from_header) # {} THEN AngleGroup(from_header)
    ELSE IF BareMatches(from_header) # {} THEN BareGroup(from_header)
    ELSE from_header

\* ------------------------------------------------------------ replies
NoText == [kind |-> "none", order_id |-> NoOrderId]
\* GeminiService.generate_response: the generated text, or the fixed
\* acknowledgement when the model call raises.
GeneratedText(purpose) == [kind |-> purpose, order_id |-> NoOrderId]
FallbackText == [kind |-> "generic-acknowledgement", order_id |-> NoOrderId]
generate_response(purpose, outcome) ==
    IF outcome = "ok" THEN GeneratedText(purpose) ELSE FallbackText
\* the fixed templates of the refund handlers
RefundProcessedText(order_id) == [kind |-> "refund-processed", order_id |-> order_id]
CannotFindText(order_id) == [kind |-> "cannot-find", order_id |-> order_id]
StillCannotFindText(order_id) == [kind |-> "still-cannot-find", order_id |-> order_id]

VARIABLES
    emails,         \* table emails (Email), in insertion order; id = index
    unhandled,      \* table unhandled_emails (UnhandledEmail)
    orders,         \* table orders (Order), keyed by the unique order_id
    refunds,        \* table refund_requests (RefundRequest)
    notfound,       \* table not_found_refund_requests (NotFoundRefundRequest)
    clock,          \* the database's time, read by auto_now_add
    unread,         \* message ids that carry the UNREAD label
    pc,             \* where each coroutine stands
    passes,         \* passes of process_user_emails started so far
    pass,           \* the number of the coroutine's current pass, 0 when idle
    user,           \* the user of the coroutine's current pass
    queue,          \* message ids still to process in the current pass
    msg,            \* message id of the current process_single_email call
    local,          \* local variables of the current call
    sends,          \* per message id, the send_email calls made for it
    fetches,        \* per message id, the get_message calls made for it
    classified,     \* per message id, the categorize_email calls made
    marks,          \* per message id, the mark_as_read calls made
    upserts,        \* the writes to not_found_refund_requests, in order
    crashes,        \* interruptions so far
    inbox,          \* per message id, the user whose mailbox holds it
    processing_active,  \* main.py's global flag
    lifespan_pc,    \* where the lifespan context manager stands
    sched_pc,       \* where continuous_email_processing stands
    pending,        \* users the for loop of the scheduler has yet to reach
    delay,          \* the asyncio.sleep the scheduler is in, 0 when in none
    rounds,         \* iterations of the scheduler's while loop begun
    outage,         \* a list_messages call of this iteration has raised
    headers,        \* per message id, its From header
    extractable,    \* the values extract_order_id can come back with
    from_header,    \* a header given to extract_email_address
    sender_email,   \* what extract_email_address returned for it
    content,        \* a text given to the knowledge ingestion
    knowledge,      \* the (title, content) pairs add_knowledge was given
    applied         \* the function that has been applied, "none" before

tables == <<emails, unhandled, orders, refunds, notfound, clock>>
tasks == <<pc, passes, pass, user, queue, msg, local>>
effects == <<sends, fetches, classified, marks, upserts>>
driver == <<processing_active, lifespan_pc, sched_pc, pending, delay, rounds,
           outage>>
setting == <<headers, extractable>>
bench == <<from_header, sender_email, content, knowledge, applied>>
vars == <<emails, unhandled, orders, refunds, notfound, clock, unread,
          pc, passes, pass, user, queue, msg, local,
          sends, fetches, classified, marks, upserts, crashes,
          inbox, processing_active, lifespan_pc, sched_pc, pending, delay,
          rounds, outage,
          headers, extractable,
          from_header, sender_email, content, knowledge, applied>>

\* values of a coroutine's variables while they are not in use
NoUser == "no-user"
NoMsg == "no-message"
NoLocal ==
    [sender |-> "none", body |-> "none", category |-> "none", email_id |-> 0,
     order_id |-> NoOrderId, attempt_id |-> 0, attempt_count |-> 0,
     response |-> NoText,
     \* what the external calls of this call came back with
     category_text |-> "none", rag_outcome |-> "none",
     importance_text |-> "none"]

\* the call a coroutine is making: a pass calls process_single_email at
\* most once per message id, so the pass number names the call
Call(t) == pass[t]

\* Email.filter(gmail_message_id=message_id)
EmailsFor(m) == {i \in DOMAIN emails : emails[i].gmail_message_id = m}
\* Order.filter(order_id=order_id).first()
OrderExists(order_id) == order_id \in DOMAIN orders
\* NotFoundRefundRequest.filter(customer_email=..., invalid_order_id=...)
AttemptsFor(customer, order_id) ==
    {i \in DOMAIN notfound :
        /\ notfound[i].customer_email = customer
        /\ notfound[i].invalid_order_id = order_id}
\* .first(): the row with the lowest primary key, 0 when there is none
First(ids) == IF ids = {} THEN 0 ELSE CHOOSE i \in ids : \A j \in ids : i <= j

\* the order in which Gmail lists the messages
MsgOrder == <<"m1", "m2">>
\* GmailService.list_messages(user, 'is:unread'): the user's unread ids
UnreadOf(u) ==
    SelectSeq(MsgOrder, LAMBDA m : m \in unread /\ inbox[m] = u)

\* An order as create_sample_orders or POST /orders stored it, with the
\* refund status it has reached since (the engine sets requested,
\* fulfillment downstream moves it on).
StoredOrder(order_id, status) ==
    [order_id |-> order_id,
     customer_email |-> "customer1@example.com",
     refund_status |-> status,
     refund_requested_at |-> IF status = NullStatus THEN NullTime
                             ELSE EarlierTime]

\* continuous_email_processing has been created and stands at the top of
\* its while loop, the flag set (line 71)
\* the mailboxes and the extractor as the constants above describe them
InitSetting ==
    /\ headers = [m \in MsgIds |-> Mailbox[m].sender]
    /\ extractable = ExtractedIds
\* no function is being tried on its own
InitBench ==
    /\ from_header = <<>>
    /\ sender_email = <<>>
    /\ content = <<>>
    /\ knowledge = <<>>
    /\ applied = "none"

InitDriver ==
    /\ processing_active = TRUE
    /\ lifespan_pc = "yielded"
    /\ sched_pc = "while"
    /\ pending = <<>>
    /\ delay = 0
    /\ rounds = 0
    /\ outage = FALSE

\* The service starts on a fresh database: the tables are empty but for
\* the orders create_sample_orders stores, no message has been read.
Init ==
    /\ emails = <<>>
    /\ unhandled = <<>>
    /\ refunds = <<>>
    /\ notfound = <<>>
    /\ orders = [o \in {ValidOrderId} |-> StoredOrder(o, NullStatus)]
    /\ clock = StartTime
    /\ unread = MsgIds
    /\ pc = [t \in Tasks |-> "idle"]
    /\ passes = 0
    /\ pass = [t \in Tasks |-> 0]
    /\ user = [t \in Tasks |-> NoUser]
    /\ queue = [t \in Tasks |-> <<>>]
    /\ msg = [t \in Tasks |-> NoMsg]
    /\ local = [t \in Tasks |-> NoLocal]
    /\ sends = [m \in MsgIds |-> <<>>]
    /\ fetches = [m \in MsgIds |-> 0]
    /\ classified = [m \in MsgIds |-> 0]
    /\ marks = [m \in MsgIds |-> 0]
    /\ upserts = <<>>
    /\ crashes = 0
    /\ inbox = [m \in MsgIds |-> Mailbox[m].user]
    /\ InitDriver
    /\ InitSetting
    /\ InitBench

\* The service starts on a database whose orders have been through
\* refunds before: the order has any status the column allows.
InitLedger ==
    /\ \E status \in {NullStatus} \cup RefundStatus :
          orders = [o \in {ValidOrderId} |-> StoredOrder(o, status)]
    /\ emails = <<>>
    /\ unhandled = <<>>
    /\ refunds = <<>>
    /\ notfound = <<>>
    /\ clock = StartTime
    /\ unread = MsgIds
    /\ pc = [t \in Tasks |-> "idle"]
    /\ passes = 0
    /\ pass = [t \in Tasks |-> 0]
    /\ user = [t \in Tasks |-> NoUser]
    /\ queue = [t \in Tasks |-> <<>>]
    /\ msg = [t \in Tasks |-> NoMsg]
    /\ local = [t \in Tasks |-> NoLocal]
    /\ sends = [m \in MsgIds |-> <<>>]
    /\ fetches = [m \in MsgIds |-> 0]
    /\ classified = [m \in MsgIds |-> 0]
    /\ marks = [m \in MsgIds |-> 0]
    /\ upserts = <<>>
    /\ crashes = 0
    /\ inbox = [m \in MsgIds |-> Mailbox[m].user]
    /\ InitDriver
    /\ InitSetting
    /\ InitBench

\* --------------------------------------------------------- helpers
Goto(t, p) == pc' = [pc EXCEPT ![t] = p]
SetLocal(t, l) == local' = [local EXCEPT ![t] = l]
\* process_single_email returns (or its except clause has printed): the
\* loop of process_user_emails goes on
Return(t) == Goto(t, "loop") /\ SetLocal(t, NoLocal)

\* GmailService.send_email as called by the handlers: it fetches the
\* original message for threading, sends, and returns True, or False when
\* anything raised.
send_email(t, body, ok) ==
    /\ sends' = [sends EXCEPT ![msg[t]] =
                    Append(@, [call |-> Call(t), to |-> local[t].sender,
                               text |-> body, ok |-> ok])]
    /\ fetches' = [fetches EXCEPT ![msg[t]] = @ + 1]

\* email.response_sent = True; await email.save()
SaveResponseSent(t) ==
    emails' = [emails EXCEPT ![local[t].email_id].response_sent = TRUE]

\* ----------------------------------------------- process_user_emails
\* A coroutine starts process_user_emails(user) and lists the unread
\* messages; list_messages returns [] when the Gmail call raises.
BeginPass(t, u, ok) ==
    /\ pc[t] = "idle"
    /\ queue' = [queue EXCEPT ![t] = IF ok THEN UnreadOf(u) ELSE <<>>]
    /\ passes' = passes + 1
    /\ pass' = [pass EXCEPT ![t] = passes + 1]
    /\ user' = [user EXCEPT ![t] = u]
    /\ Goto(t, "loop")
    /\ UNCHANGED <<tables, unread, msg, local, effects, crashes, inbox, setting, bench>>

StartPass(t, u) ==
    /\ passes < MaxPasses
    /\ \E ok \in BOOLEAN : BeginPass(t, u, ok)
    /\ UNCHANGED driver

\* the for loop is exhausted: process_user_emails returns
EndPass(t) ==
    /\ pc[t] = "loop"
    /\ queue[t] = <<>>
    /\ Goto(t, "idle")
    /\ pass' = [pass EXCEPT ![t] = 0]
    /\ user' = [user EXCEPT ![t] = NoUser]
    /\ msg' = [msg EXCEPT ![t] = NoMsg]
    /\ UNCHANGED <<tables, unread, passes, queue, local, effects, crashes, inbox, setting, bench, driver>>

\* ---------------------------------------------- process_single_email
\* process_single_email without its "already processed" return
CheckExisting_NoGuard(t) ==
    /\ pc[t] = "loop"
    /\ queue[t] # <<>>
    /\ msg' = [msg EXCEPT ![t] = Head(queue[t])]
    /\ queue' = [queue EXCEPT ![t] = Tail(@)]
    /\ Goto(t, "fetch")
    /\ UNCHANGED <<tables, unread, passes, pass, user, local, effects,
                   crashes, inbox, setting, bench, driver>>

\* for message in messages: await self.process_single_email(user, id),
\* which begins with
\* existing_email = await Email.filter(gmail_message_id=...).first()
\* and returns when there is one
CheckExisting(t) ==
    /\ pc[t] = "loop"
    /\ queue[t] # <<>>
    /\ msg' = [msg EXCEPT ![t] = Head(queue[t])]
    /\ queue' = [queue EXCEPT ![t] = Tail(@)]
    /\ IF EmailsFor(Head(queue[t])) # {}
       THEN Goto(t, "loop")
       ELSE Goto(t, "fetch")
    /\ UNCHANGED <<tables, unread, passes, pass, user, local, effects,
                   crashes, inbox, setting, bench, driver>>

\* categorize_email whose except clause returns QUESTION
categorize_email_ErrorAsQuestion(answer) ==
    IF answer \in {"question", "error"} THEN QUESTION
    ELSE IF answer = "refund" THEN REFUND
    ELSE OTHERS

\* GeminiService.categorize_email: the model's word, OTHER when it names
\* neither category or when the call raises
categorize_email(answer) ==
    IF answer = "question" THEN QUESTION
    ELSE IF answer = "refund" THEN REFUND
    ELSE OTHERS

\* get_message whose failure reaches process_user_emails: the rest of the
\* unread list is dropped
GetMessage_FailureRaises(t) ==
    /\ pc[t] = "fetch"
    /\ fetches' = [fetches EXCEPT ![msg[t]] = @ + 1]
    /\ \E ok \in BOOLEAN,
          answer \in {"question", "refund", "other", "error"} :
          IF ok
          THEN /\ SetLocal(t, [local[t] EXCEPT
                     !.sender = extract_email_address(headers[msg[t]]),
                     !.body = Mailbox[msg[t]].body,
                     !.category = categorize_email(answer),
                     !.category_text = answer])
               /\ classified' = [classified EXCEPT ![msg[t]] = @ + 1]
               /\ Goto(t, "create")
               /\ UNCHANGED queue
          ELSE /\ Return(t)
               /\ queue' = [queue EXCEPT ![t] = <<>>]
               /\ UNCHANGED classified
    /\ UNCHANGED <<tables, unread, passes, pass, user, msg, sends,
                   marks, upserts, crashes, inbox, setting, bench, driver>>

\* get_message whose failure makes process_single_email mark the message
\* as read
GetMessage_FailureMarksRead(t) ==
    /\ pc[t] = "fetch"
    /\ fetches' = [fetches EXCEPT ![msg[t]] = @ + 1]
    /\ \E ok \in BOOLEAN,
          answer \in {"question", "refund", "other", "error"} :
          IF ok
          THEN /\ SetLocal(t, [local[t] EXCEPT
                     !.sender = extract_email_address(headers[msg[t]]),
                     !.body = Mailbox[msg[t]].body,
                     !.category = categorize_email(answer),
                     !.category_text = answer])
               /\ classified' = [classified EXCEPT ![msg[t]] = @ + 1]
               /\ Goto(t, "create")
               /\ UNCHANGED <<unread, marks>>
          ELSE /\ Return(t)
               /\ marks' = [marks EXCEPT ![msg[t]] = @ + 1]
               /\ unread' = unread \ {msg[t]}
               /\ UNCHANGED classified
    /\ UNCHANGED <<tables, passes, pass, user, queue, msg, sends,
                   upserts, crashes, inbox, setting, bench, driver>>

\* message_data = await self.gmail_service.get_message(...), None when the
\* Gmail call raises; then the sender address is extracted and the email
\* is categorized
GetMessage(t) ==
    /\ pc[t] = "fetch"
    /\ fetches' = [fetches EXCEPT ![msg[t]] = @ + 1]
    /\ \E ok \in BOOLEAN,
          answer \in {"question", "refund", "other", "error"} :
          IF ok
          THEN /\ SetLocal(t, [local[t] EXCEPT
                     !.sender = extract_email_address(headers[msg[t]]),
                     !.body = Mailbox[msg[t]].body,
                     !.category = categorize_email(answer),
                     !.category_text = answer])
               /\ classified' = [classified EXCEPT ![msg[t]] = @ + 1]
               /\ Goto(t, "create")
          ELSE /\ Return(t)
               /\ UNCHANGED classified
    /\ UNCHANGED <<tables, unread, passes, pass, user, queue, msg, sends,
                   marks, upserts, crashes, inbox, setting, bench, driver>>

\* the handler process_single_email dispatches to
Dispatch(category) ==
    IF category = QUESTION THEN "question"
    ELSE IF category = REFUND THEN "refund"
    ELSE "other"

\* Email.create on a column that is not unique: the second insert of a
\* message id succeeds
EmailCreate_NotUnique(t) ==
    /\ pc[t] = "create"
    /\ emails' = Append(emails,
          [id |-> Len(emails) + 1,
           gmail_message_id |-> msg[t],
           user |-> user[t],
           sender_email |-> local[t].sender,
           body |-> local[t].body,
           category |-> local[t].category,
           processed_at |-> clock,
           response_sent |-> FALSE,
           call |-> Call(t)])
    /\ clock' = clock + 1
    /\ SetLocal(t, [local[t] EXCEPT !.email_id = Len(emails) + 1])
    /\ Goto(t, Dispatch(local[t].category))
    /\ UNCHANGED <<unhandled, orders, refunds, notfound, unread, passes, pass,
                   user, queue, msg, effects, crashes, inbox, setting, bench, driver>>

\* Email(...) built but never saved: the call goes on without a row
EmailCreate_NotSaved(t) ==
    /\ pc[t] = "create"
    /\ SetLocal(t, [local[t] EXCEPT !.email_id = Len(emails) + 1])
    /\ Goto(t, Dispatch(local[t].category))
    /\ UNCHANGED <<tables, unread, passes, pass, user, queue, msg, effects,
                   crashes, inbox, setting, bench, driver>>

\* Email.get_or_create in place of Email.create: the second caller gets
\* the existing row and goes on to dispatch
EmailCreate_GetOrCreate(t) ==
    /\ pc[t] = "create"
    /\ IF EmailsFor(msg[t]) # {}
       THEN /\ SetLocal(t, [local[t] EXCEPT !.email_id = First(EmailsFor(msg[t]))])
            /\ UNCHANGED <<emails, clock>>
       ELSE /\ emails' = Append(emails,
                  [id |-> Len(emails) + 1,
                   gmail_message_id |-> msg[t],
                   user |-> user[t],
                   sender_email |-> local[t].sender,
                   body |-> local[t].body,
                   category |-> local[t].category,
                   processed_at |-> clock,
                   response_sent |-> FALSE,
                   call |-> Call(t)])
            /\ clock' = clock + 1
            /\ SetLocal(t, [local[t] EXCEPT !.email_id = Len(emails) + 1])
    /\ Goto(t, Dispatch(local[t].category))
    /\ UNCHANGED <<unhandled, orders, refunds, notfound, unread, passes, pass,
                   user, queue, msg, effects, crashes, inbox, setting, bench, driver>>

\* email_record = await Email.create(...): gmail_message_id is unique, so
\* the insert raises when a row with this id exists, and the except
\* clause of process_single_email ends the call
EmailCreate(t) ==
    /\ pc[t] = "create"
    /\ IF EmailsFor(msg[t]) # {}
       THEN /\ Return(t)
            /\ UNCHANGED <<emails, clock>>
       ELSE /\ emails' = Append(emails,
                  [id |-> Len(emails) + 1,
                   gmail_message_id |-> msg[t],
                   user |-> user[t],
                   sender_email |-> local[t].sender,
                   body |-> local[t].body,
                   category |-> local[t].category,
                   processed_at |-> clock,
                   response_sent |-> FALSE,
                   call |-> Call(t)])
            /\ clock' = clock + 1
            /\ SetLocal(t, [local[t] EXCEPT !.email_id = Len(emails) + 1])
            /\ Goto(t, Dispatch(local[t].category))
    /\ UNCHANGED <<unhandled, orders, refunds, notfound, unread, passes, pass, user,
                   queue, msg, effects, crashes, inbox, setting, bench, driver>>

\* mark_as_read whose failure reaches process_user_emails: the rest of
\* the unread list is dropped
MarkAsRead_FailureRaises(t) ==
    /\ pc[t] = "mark"
    /\ marks' = [marks EXCEPT ![msg[t]] = @ + 1]
    /\ \E ok \in BOOLEAN :
          /\ unread' = IF ok THEN unread \ {msg[t]} ELSE unread
          /\ queue' = [queue EXCEPT ![t] = IF ok THEN @ ELSE <<>>]
    /\ Return(t)
    /\ UNCHANGED <<tables, passes, pass, user, msg, sends, fetches,
                   classified, upserts, crashes, inbox, setting, bench, driver>>

\* process_single_email that calls mark_as_read again when it returned
\* False
MarkAsRead_Retries(t) ==
    /\ pc[t] = "mark"
    /\ marks' = [marks EXCEPT ![msg[t]] = @ + 1]
    /\ \E ok \in BOOLEAN :
          IF ok
          THEN /\ unread' = unread \ {msg[t]}
               /\ Return(t)
          ELSE UNCHANGED <<unread, pc, local>>
    /\ UNCHANGED <<tables, passes, pass, user, queue, msg, sends, fetches,
                   classified, upserts, crashes, inbox, setting, bench, driver>>

\* await self.gmail_service.mark_as_read(...): best effort
MarkAsRead(t) ==
    /\ pc[t] = "mark"
    /\ marks' = [marks EXCEPT ![msg[t]] = @ + 1]
    /\ \E ok \in BOOLEAN :
          unread' = IF ok THEN unread \ {msg[t]} ELSE unread
    /\ Return(t)
    /\ UNCHANGED <<tables, passes, pass, user, queue, msg, sends, fetches,
                   classified, upserts, crashes, inbox, setting, bench, driver>>

\* ------------------------------------------------------ handle_question
\* answer_question without the test for the INSUFFICIENT_INFO marker
answer_question_NoMarker(outcome) ==
    IF outcome \in {"no-docs", "search-error"}
    THEN [answer |-> NoText, can_answer |-> FALSE]
    ELSE [answer |-> generate_response("answer",
                        IF outcome = "answer" THEN "ok" ELSE "error"),
          can_answer |-> TRUE]

\* RAGService.answer_question: (answer, can_answer)
answer_question(outcome) ==
    IF outcome \in {"no-docs", "insufficient", "search-error"}
    THEN [answer |-> NoText, can_answer |-> FALSE]
    ELSE [answer |-> generate_response("answer",
                        IF outcome = "answer" THEN "ok" ELSE "error"),
          can_answer |-> TRUE]

\* UnhandledEmail.create(email=..., importance_level=..., reason=...)
UnhandledCreate(t, importance, reason) ==
    unhandled' = Append(unhandled,
        [id |-> Len(unhandled) + 1, email |-> local[t].email_id,
         importance_level |-> importance, reason |-> reason])

\* handle_question that saves response_sent whatever send_email returned
AnswerQuestion_IgnoresResult(t) ==
    /\ pc[t] = "question"
    /\ \E outcome \in {"no-docs", "insufficient", "search-error", "answer",
                       "generate-error"},
          success \in BOOLEAN :
          LET r == answer_question(outcome) IN
          IF r.can_answer
          THEN /\ send_email(t, r.answer, success)
               /\ SetLocal(t, [local[t] EXCEPT !.response = r.answer,
                                               !.rag_outcome = outcome])
               /\ Goto(t, "q_save")
               /\ UNCHANGED unhandled
          ELSE /\ UnhandledCreate(t, HIGH, "no-relevant-information")
               /\ SetLocal(t, [local[t] EXCEPT !.rag_outcome = outcome])
               /\ Goto(t, "mark")
               /\ UNCHANGED <<sends, fetches>>
    /\ UNCHANGED <<emails, orders, refunds, notfound, clock, unread, passes,
                   pass, user, queue, msg, classified, marks, upserts,
                   crashes, inbox, setting, bench, driver>>

\* answer, can_answer = await self.rag_service.answer_question(email.body)
\* and then the reply is sent, or the email is filed as unhandled
AnswerQuestion(t) ==
    /\ pc[t] = "question"
    /\ \E outcome \in {"no-docs", "insufficient", "search-error", "answer",
                       "generate-error"},
          success \in BOOLEAN :
          LET r == answer_question(outcome) IN
          IF r.can_answer
          THEN /\ send_email(t, r.answer, success)
               /\ SetLocal(t, [local[t] EXCEPT !.response = r.answer,
                                               !.rag_outcome = outcome])
               /\ IF success THEN Goto(t, "q_save") ELSE Goto(t, "mark")
               /\ UNCHANGED unhandled
          ELSE /\ UnhandledCreate(t, HIGH, "no-relevant-information")
               /\ SetLocal(t, [local[t] EXCEPT !.rag_outcome = outcome])
               /\ Goto(t, "mark")
               /\ UNCHANGED <<sends, fetches>>
    /\ UNCHANGED <<emails, orders, refunds, notfound, clock, unread, passes,
                   pass, user, queue, msg, classified, marks, upserts,
                   crashes, inbox, setting, bench, driver>>

\* if success: email.response_sent = True; await email.save()
QuestionSave(t) ==
    /\ pc[t] = "q_save"
    /\ SaveResponseSent(t)
    /\ Goto(t, "mark")
    /\ UNCHANGED <<unhandled, orders, refunds, notfound, clock, unread, passes,
                   pass, user, queue, msg, local, effects, crashes, inbox, setting, bench, driver>>

\* --------------------------------------------------- handle_other_email
\* GeminiService.determine_importance whose except clause returns LOW
rate_importance_ErrorAsLow(outcome) ==
    IF outcome = "error" THEN "LOW" ELSE outcome

\* GeminiService.determine_importance: the model's word, MEDIUM when the
\* call raises
rate_importance(outcome) ==
    IF outcome = "error" THEN "MEDIUM" ELSE outcome

\* determine_importance with no branch for LOW
determine_importance_NoLow(answer) ==
    IF answer = "HIGH" THEN HIGH ELSE MEDIUM

\* EmailProcessor.determine_importance over GeminiService's answer
determine_importance(answer) ==
    IF answer = "HIGH" THEN HIGH
    ELSE IF answer = "MEDIUM" THEN MEDIUM
    ELSE LOW

\* handle_other_email that also records a response as sent
HandleOther_Acknowledges(t) ==
    /\ pc[t] = "other"
    /\ \E outcome \in {"HIGH", "MEDIUM", "LOW", "error"} :
          /\ UnhandledCreate(t, determine_importance(rate_importance(outcome)),
                             "categorized-as-other")
          /\ SetLocal(t, [local[t] EXCEPT !.importance_text = outcome])
    /\ SaveResponseSent(t)
    /\ Goto(t, "mark")
    /\ UNCHANGED <<orders, refunds, notfound, clock, unread, passes, pass,
                   user, queue, msg, effects, crashes, inbox, setting, bench,
                   driver>>

HandleOther(t) ==
    /\ pc[t] = "other"
    /\ \E outcome \in {"HIGH", "MEDIUM", "LOW", "error"} :
          /\ UnhandledCreate(t, determine_importance(rate_importance(outcome)),
                             "categorized-as-other")
          /\ SetLocal(t, [local[t] EXCEPT !.importance_text = outcome])
    /\ Goto(t, "mark")
    /\ UNCHANGED <<emails, orders, refunds, notfound, clock, unread, passes, pass,
                   user, queue, msg, effects, crashes, inbox, setting, bench, driver>>

\* ------------------------------------------------ handle_refund_request
\* RefundRequest.create(email=..., order=..., customer_email=...,
\* requested_order_id=..., status=...)
RefundRequestCreate(t, order, requested_order_id, status) ==
    refunds' = Append(refunds,
        [id |-> Len(refunds) + 1, email |-> local[t].email_id,
         order |-> order, customer_email |-> local[t].sender,
         requested_order_id |-> requested_order_id, status |-> status])

\* handle_refund_request that takes the branch of an existing order only
\* when the sender is the order's customer
ExtractOrderId_OwnerOnly(t) ==
    /\ pc[t] = "refund"
    /\ \E order_id \in extractable, generated \in {"ok", "error"},
          success \in BOOLEAN :
          IF order_id = NoOrderId
          THEN LET response ==
                       generate_response("ask-for-order-id", generated) IN
               /\ SetLocal(t, [local[t] EXCEPT !.response = response])
               /\ send_email(t, response, success)
               /\ Goto(t, "r_noid_create")
          ELSE /\ SetLocal(t, [local[t] EXCEPT !.order_id = order_id])
               /\ IF /\ OrderExists(order_id)
                     /\ orders[order_id].customer_email = local[t].sender
                  THEN Goto(t, "r_order_save")
                  ELSE Goto(t, "i_lookup")
               /\ UNCHANGED <<sends, fetches>>
    /\ UNCHANGED <<tables, unread, passes, pass, user, queue, msg, classified,
                   marks, upserts, crashes, inbox, setting, bench, driver>>

\* order_id = await self.gemini_service.extract_order_id(email.body); with
\* no id the request for the order id is generated and sent (the result
\* of send_email is not looked at); with an id,
\* order = await Order.filter(order_id=order_id).first()
ExtractOrderId(t) ==
    /\ pc[t] = "refund"
    /\ \E order_id \in extractable, generated \in {"ok", "error"},
          success \in BOOLEAN :
          IF order_id = NoOrderId
          THEN LET response ==
                       generate_response("ask-for-order-id", generated) IN
               /\ SetLocal(t, [local[t] EXCEPT !.response = response])
               /\ send_email(t, response, success)
               /\ Goto(t, "r_noid_create")
          ELSE /\ SetLocal(t, [local[t] EXCEPT !.order_id = order_id])
               /\ IF OrderExists(order_id)
                  THEN Goto(t, "r_order_save")
                  ELSE Goto(t, "i_lookup")
               /\ UNCHANGED <<sends, fetches>>
    /\ UNCHANGED <<tables, unread, passes, pass, user, queue, msg, classified,
                   marks, upserts, crashes, inbox, setting, bench, driver>>

RefundNoIdCreate(t) ==
    /\ pc[t] = "r_noid_create"
    /\ RefundRequestCreate(t, NoOrderId, NoOrderId, "waiting_for_order_id")
    /\ Goto(t, "r_noid_save")
    /\ UNCHANGED <<emails, unhandled, orders, notfound, clock, unread, passes, pass,
                   user, queue, msg, local, effects, crashes, inbox, setting, bench, driver>>

RefundNoIdSave(t) ==
    /\ pc[t] = "r_noid_save"
    /\ SaveResponseSent(t)
    /\ Goto(t, "mark")
    /\ UNCHANGED <<unhandled, orders, refunds, notfound, clock, unread, passes, pass,
                   user, queue, msg, local, effects, crashes, inbox, setting, bench, driver>>

\* the order saved with its refund_requested_at but without a status
OrderSave_NoStatus(t) ==
    /\ pc[t] = "r_order_save"
    /\ orders' = [orders EXCEPT ![local[t].order_id] =
                    [@ EXCEPT !.refund_requested_at =
                                  emails[local[t].email_id].processed_at]]
    /\ SetLocal(t, [local[t] EXCEPT
          !.response = RefundProcessedText(local[t].order_id)])
    /\ Goto(t, "r_order_send")
    /\ UNCHANGED <<emails, unhandled, refunds, notfound, clock, unread, passes,
                   pass, user, queue, msg, effects, crashes, inbox, setting,
                   bench, driver>>

\* the order stamped with the time of the save, not the email's
OrderSave_StampsNow(t) ==
    /\ pc[t] = "r_order_save"
    /\ orders' = [orders EXCEPT ![local[t].order_id] =
                    [@ EXCEPT !.refund_status = REQUESTED,
                              !.refund_requested_at = clock]]
    /\ SetLocal(t, [local[t] EXCEPT
          !.response = RefundProcessedText(local[t].order_id)])
    /\ Goto(t, "r_order_send")
    /\ UNCHANGED <<emails, unhandled, refunds, notfound, clock, unread, passes,
                   pass, user, queue, msg, effects, crashes, inbox, setting, bench, driver>>

\* order.refund_status = RefundStatus.REQUESTED
\* order.refund_requested_at = email.processed_at; await order.save()
OrderSave(t) ==
    /\ pc[t] = "r_order_save"
    /\ orders' = [orders EXCEPT ![local[t].order_id] =
                    [@ EXCEPT !.refund_status = REQUESTED,
                              !.refund_requested_at =
                                  emails[local[t].email_id].processed_at]]
    /\ SetLocal(t, [local[t] EXCEPT
          !.response = RefundProcessedText(local[t].order_id)])
    /\ Goto(t, "r_order_send")
    /\ UNCHANGED <<emails, unhandled, refunds, notfound, clock, unread, passes, pass,
                   user, queue, msg, effects, crashes, inbox, setting, bench, driver>>

RefundOrderSend(t) ==
    /\ pc[t] = "r_order_send"
    /\ \E success \in BOOLEAN : send_email(t, local[t].response, success)
    /\ Goto(t, "r_order_create")
    /\ UNCHANGED <<tables, unread, passes, pass, user, queue, msg, local, classified,
                   marks, upserts, crashes, inbox, setting, bench, driver>>

\* one refund_requests row per order: no row is created when the order
\* has one
RefundOrderCreate_OnePerOrder(t) ==
    /\ pc[t] = "r_order_create"
    /\ IF \E r \in 1..Len(refunds) : refunds[r].order = local[t].order_id
       THEN UNCHANGED refunds
       ELSE RefundRequestCreate(t, local[t].order_id, local[t].order_id,
                                "approved")
    /\ Goto(t, "r_order_done")
    /\ UNCHANGED <<emails, unhandled, orders, notfound, clock, unread, passes, pass,
                   user, queue, msg, local, effects, crashes, inbox, setting, bench, driver>>

RefundOrderCreate(t) ==
    /\ pc[t] = "r_order_create"
    /\ RefundRequestCreate(t, local[t].order_id, local[t].order_id, "approved")
    /\ Goto(t, "r_order_done")
    /\ UNCHANGED <<emails, unhandled, orders, notfound, clock, unread, passes, pass,
                   user, queue, msg, local, effects, crashes, inbox, setting, bench, driver>>

RefundOrderDone(t) ==
    /\ pc[t] = "r_order_done"
    /\ SaveResponseSent(t)
    /\ Goto(t, "mark")
    /\ UNCHANGED <<unhandled, orders, refunds, notfound, clock, unread, passes, pass,
                   user, queue, msg, local, effects, crashes, inbox, setting, bench, driver>>

\* ---------------------------------------------- handle_invalid_order_id
\* the lookup filtered by customer_email alone
AttemptLookup_ByCustomer(t) ==
    /\ pc[t] = "i_lookup"
    /\ LET existing_attempt ==
               First({i \in DOMAIN notfound :
                         notfound[i].customer_email = local[t].sender}) IN
       SetLocal(t, [local[t] EXCEPT
          !.attempt_id = existing_attempt,
          !.attempt_count = IF existing_attempt = 0 THEN 0
                            ELSE notfound[existing_attempt].attempt_count])
    /\ Goto(t, "i_upsert")
    /\ UNCHANGED <<tables, unread, passes, pass, user, queue, msg, effects, crashes, inbox, setting, bench, driver>>

\* existing_attempt = await NotFoundRefundRequest.filter(
\*     customer_email=email.sender_email,
\*     invalid_order_id=invalid_order_id).first()
AttemptLookup(t) ==
    /\ pc[t] = "i_lookup"
    /\ LET existing_attempt ==
               First(AttemptsFor(local[t].sender, local[t].order_id)) IN
       SetLocal(t, [local[t] EXCEPT
          !.attempt_id = existing_attempt,
          !.attempt_count = IF existing_attempt = 0 THEN 0
                            ELSE notfound[existing_attempt].attempt_count])
    /\ Goto(t, "i_upsert")
    /\ UNCHANGED <<tables, unread, passes, pass, user, queue, msg, effects, crashes, inbox, setting, bench, driver>>

\* the repeat attempt saved without attempt_count += 1
AttemptUpsert_NoIncrement(t) ==
    /\ pc[t] = "i_upsert"
    /\ IF local[t].attempt_id # 0
       THEN /\ notfound' = [notfound EXCEPT ![local[t].attempt_id] =
                   [@ EXCEPT !.attempt_count = local[t].attempt_count,
                             !.email_content = local[t].body]]
            /\ SetLocal(t, [local[t] EXCEPT
                   !.response = StillCannotFindText(local[t].order_id)])
       ELSE /\ notfound' = Append(notfound,
                   [id |-> Len(notfound) + 1,
                    customer_email |-> local[t].sender,
                    invalid_order_id |-> local[t].order_id,
                    email_content |-> local[t].body,
                    attempt_count |-> 1])
            /\ SetLocal(t, [local[t] EXCEPT
                   !.response = CannotFindText(local[t].order_id)])
    /\ upserts' = Append(upserts,
          [msg |-> msg[t], customer_email |-> local[t].sender,
           invalid_order_id |-> local[t].order_id])
    /\ Goto(t, "i_send")
    /\ UNCHANGED <<emails, unhandled, orders, refunds, clock, unread, passes,
                   pass, user, queue, msg, sends, fetches, classified, marks,
                   crashes, inbox, setting, bench, driver>>

\* if existing_attempt: attempt_count += 1, email_content = email.body,
\* save(); else NotFoundRefundRequest.create(..., attempt_count=1).  The
\* object that is saved is the one read by the lookup.
AttemptUpsert(t) ==
    /\ pc[t] = "i_upsert"
    /\ IF local[t].attempt_id # 0
       THEN /\ notfound' = [notfound EXCEPT ![local[t].attempt_id] =
                   [@ EXCEPT !.attempt_count = local[t].attempt_count + 1,
                             !.email_content = local[t].body]]
            /\ SetLocal(t, [local[t] EXCEPT
                   !.response = StillCannotFindText(local[t].order_id)])
       ELSE /\ notfound' = Append(notfound,
                   [id |-> Len(notfound) + 1,
                    customer_email |-> local[t].sender,
                    invalid_order_id |-> local[t].order_id,
                    email_content |-> local[t].body,
                    attempt_count |-> 1])
            /\ SetLocal(t, [local[t] EXCEPT
                   !.response = CannotFindText(local[t].order_id)])
    /\ upserts' = Append(upserts,
          [msg |-> msg[t], customer_email |-> local[t].sender,
           invalid_order_id |-> local[t].order_id])
    /\ Goto(t, "i_send")
    /\ UNCHANGED <<emails, unhandled, orders, refunds, clock, unread, passes, pass,
                   user, queue, msg, sends, fetches, classified, marks,
                   crashes, inbox, setting, bench, driver>>

InvalidSend(t) ==
    /\ pc[t] = "i_send"
    /\ \E success \in BOOLEAN : send_email(t, local[t].response, success)
    /\ Goto(t, "i_create")
    /\ UNCHANGED <<tables, unread, passes, pass, user, queue, msg, local, classified,
                   marks, upserts, crashes, inbox, setting, bench, driver>>

InvalidCreate(t) ==
    /\ pc[t] = "i_create"
    /\ RefundRequestCreate(t, NoOrderId, local[t].order_id, "invalid_order_id")
    /\ Goto(t, "i_save")
    /\ UNCHANGED <<emails, unhandled, orders, notfound, clock, unread, passes, pass,
                   user, queue, msg, local, effects, crashes, inbox, setting, bench, driver>>

InvalidSave(t) ==
    /\ pc[t] = "i_save"
    /\ SaveResponseSent(t)
    /\ Goto(t, "mark")
    /\ UNCHANGED <<unhandled, orders, refunds, notfound, clock, unread, passes, pass,
                   user, queue, msg, local, effects, crashes, inbox, setting, bench, driver>>

\* ------------------------------------------------------------ the run
\* The process is interrupted and started again: the coroutines are gone,
\* the database and the mailboxes stay.
Crash ==
    /\ crashes < MaxCrashes
    /\ \E t \in Tasks : pc[t] # "idle"
    /\ crashes' = crashes + 1
    /\ pc' = [t \in Tasks |-> "idle"]
    /\ queue' = [t \in Tasks |-> <<>>]
    /\ local' = [t \in Tasks |-> NoLocal]
    /\ pass' = [t \in Tasks |-> 0]
    /\ user' = [t \in Tasks |-> NoUser]
    /\ msg' = [t \in Tasks |-> NoMsg]
    /\ UNCHANGED <<tables, unread, passes, effects, inbox, driver, setting,
                   bench>>

\* the steps of a process_user_emails call that has begun
Handle(t) ==
    \/ EndPass(t)
    \/ CheckExisting(t)
    \/ GetMessage(t)
    \/ EmailCreate(t)
    \/ AnswerQuestion(t)
    \/ QuestionSave(t)
    \/ ExtractOrderId(t)
    \/ RefundNoIdCreate(t)
    \/ RefundNoIdSave(t)
    \/ OrderSave(t)
    \/ RefundOrderSend(t)
    \/ RefundOrderCreate(t)
    \/ RefundOrderDone(t)
    \/ AttemptLookup(t)
    \/ AttemptUpsert(t)
    \/ InvalidSend(t)
    \/ InvalidCreate(t)
    \/ InvalidSave(t)
    \/ HandleOther(t)
    \/ MarkAsRead(t)

Step(t) ==
    \/ \E u \in Users : StartPass(t, u)
    \/ Handle(t)

Next == (\E t \in Tasks : Step(t)) \/ Crash
Spec == Init /\ [][Next]_vars
SpecLedger == InitLedger /\ [][Next]_vars

\* The scheduler and the manual trigger never overlap: a coroutine takes
\* a step only while every other one is idle.
NextSeq ==
    \/ \E t \in Tasks : (\A o \in Tasks \ {t} : pc[o] = "idle") /\ Step(t)
    \/ Crash
SpecSeq == Init /\ [][NextSeq]_vars

\* ------------------------------------------- continuous_email_processing
\* await asyncio.sleep(30) after a pass, await asyncio.sleep(60) in the
\* except clause
NormalDelay == 30
ErrorDelay == 60
\* User.filter(is_active=True).all(): both users are active
ActiveUsers == <<"u1", "u2">>

\* The service starts with the scheduler alone; the second message lies
\* in the second user's mailbox or, with the first, in the first user's.
InitSched ==
    /\ inbox \in {[m \in MsgIds |-> Mailbox[m].user],
                  [m \in MsgIds |-> "u1"]}
    /\ emails = <<>>
    /\ unhandled = <<>>
    /\ refunds = <<>>
    /\ notfound = <<>>
    /\ orders = [o \in {ValidOrderId} |-> StoredOrder(o, NullStatus)]
    /\ clock = StartTime
    /\ unread = MsgIds
    /\ pc = [t \in Tasks |-> "idle"]
    /\ passes = 0
    /\ pass = [t \in Tasks |-> 0]
    /\ user = [t \in Tasks |-> NoUser]
    /\ queue = [t \in Tasks |-> <<>>]
    /\ msg = [t \in Tasks |-> NoMsg]
    /\ local = [t \in Tasks |-> NoLocal]
    /\ sends = [m \in MsgIds |-> <<>>]
    /\ fetches = [m \in MsgIds |-> 0]
    /\ classified = [m \in MsgIds |-> 0]
    /\ marks = [m \in MsgIds |-> 0]
    /\ upserts = <<>>
    /\ crashes = 0
    /\ InitDriver
    /\ InitSetting
    /\ InitBench

\* while processing_active: try: users = await User.filter(...).all();
\* when the query raises, the except clause sleeps the longer delay
SchedEnumerate ==
    /\ sched_pc = "while"
    /\ processing_active
    /\ rounds < MaxRounds
    /\ rounds' = rounds + 1
    /\ outage' = FALSE
    /\ \E ok \in BOOLEAN :
          IF ok
          THEN /\ pending' = ActiveUsers
               /\ sched_pc' = "for"
               /\ UNCHANGED delay
          ELSE /\ sched_pc' = "sleep"
               /\ delay' = ErrorDelay
               /\ UNCHANGED pending
    /\ UNCHANGED <<tables, unread, tasks, effects, crashes, inbox, setting, bench,
                   processing_active, lifespan_pc>>

\* the while condition is false: the coroutine ends
SchedExit ==
    /\ sched_pc = "while"
    /\ ~ processing_active
    /\ sched_pc' = "done"
    /\ UNCHANGED <<tables, unread, tasks, effects, crashes, inbox, setting, bench,
                   processing_active, lifespan_pc, pending, delay, rounds,
                   outage>>

\* a list_messages failure that reaches the scheduler's except clause:
\* the users not yet reached are dropped
ProcessUser_FailureRaises ==
    /\ sched_pc = "for"
    /\ pending # <<>>
    /\ \E ok \in BOOLEAN :
          /\ BeginPass("sched", Head(pending), ok)
          /\ outage' = (outage \/ ~ ok)
          /\ pending' = IF ok THEN Tail(pending) ELSE <<>>
    /\ UNCHANGED <<processing_active, lifespan_pc, sched_pc, delay, rounds>>

\* for user in users: await email_processor.process_user_emails(user)
ProcessUser ==
    /\ sched_pc = "for"
    /\ pending # <<>>
    /\ \E ok \in BOOLEAN :
          /\ BeginPass("sched", Head(pending), ok)
          /\ outage' = (outage \/ ~ ok)
    /\ pending' = Tail(pending)
    /\ UNCHANGED <<processing_active, lifespan_pc, sched_pc, delay, rounds>>

\* the for loop is exhausted: await asyncio.sleep(30)
SchedSleep ==
    /\ sched_pc = "for"
    /\ pending = <<>>
    /\ pc["sched"] = "idle"
    /\ sched_pc' = "sleep"
    /\ delay' = NormalDelay
    /\ UNCHANGED <<tables, unread, tasks, effects, crashes, inbox, setting, bench,
                   processing_active, lifespan_pc, pending, rounds, outage>>

\* the sleep is over: back to the while condition
SchedResume ==
    /\ sched_pc = "sleep"
    /\ sched_pc' = "while"
    /\ delay' = 0
    /\ UNCHANGED <<tables, unread, tasks, effects, crashes, inbox, setting, bench,
                   processing_active, lifespan_pc, pending, rounds, outage>>

\* lifespan after the yield: processing_active = False
Shutdown ==
    /\ lifespan_pc = "yielded"
    /\ lifespan_pc' = "closed"
    /\ processing_active' = FALSE
    /\ UNCHANGED <<tables, unread, tasks, effects, crashes, inbox, setting, bench,
                   sched_pc, pending, delay, rounds, outage>>

NextSched ==
    \/ SchedEnumerate
    \/ SchedExit
    \/ ProcessUser
    \/ SchedSleep
    \/ SchedResume
    \/ Shutdown
    \/ Handle("sched")
SpecSched == InitSched /\ [][NextSched]_vars

\* ------------------------------------------------------------ lifespan
\* lifespan has called asyncio.create_task(continuous_email_processing())
\* and yielded: the coroutine is scheduled and has not run yet, and the
\* flag is as the module set it, False.
InitLifespan ==
    /\ inbox \in {[m \in MsgIds |-> Mailbox[m].user],
                  [m \in MsgIds |-> "u1"]}
    /\ emails = <<>>
    /\ unhandled = <<>>
    /\ refunds = <<>>
    /\ notfound = <<>>
    /\ orders = [o \in {ValidOrderId} |-> StoredOrder(o, NullStatus)]
    /\ clock = StartTime
    /\ unread = MsgIds
    /\ pc = [t \in Tasks |-> "idle"]
    /\ passes = 0
    /\ pass = [t \in Tasks |-> 0]
    /\ user = [t \in Tasks |-> NoUser]
    /\ queue = [t \in Tasks |-> <<>>]
    /\ msg = [t \in Tasks |-> NoMsg]
    /\ local = [t \in Tasks |-> NoLocal]
    /\ sends = [m \in MsgIds |-> <<>>]
    /\ fetches = [m \in MsgIds |-> 0]
    /\ classified = [m \in MsgIds |-> 0]
    /\ marks = [m \in MsgIds |-> 0]
    /\ upserts = <<>>
    /\ crashes = 0
    /\ processing_active = FALSE
    /\ lifespan_pc = "yielded"
    /\ sched_pc = "created"
    /\ pending = <<>>
    /\ delay = 0
    /\ rounds = 0
    /\ outage = FALSE
    /\ InitSetting
    /\ InitBench

\* the coroutine runs for the first time:
\* global processing_active; processing_active = True
SchedStart ==
    /\ sched_pc = "created"
    /\ processing_active' = TRUE
    /\ sched_pc' = "while"
    /\ UNCHANGED <<tables, unread, tasks, effects, crashes, inbox, setting, bench,
                   lifespan_pc, pending, delay, rounds, outage>>

\* the steps of the scheduler's coroutine
SchedRun ==
    \/ SchedStart
    \/ SchedEnumerate
    \/ SchedExit
    \/ ProcessUser
    \/ SchedSleep
    \/ SchedResume
    \/ Handle("sched")

NextLifespan == SchedRun \/ Shutdown
\* the event loop runs the coroutine whenever it can take a step
SpecLifespan ==
    InitLifespan /\ [][NextLifespan]_vars /\ WF_vars(SchedRun)

\* ------------------------------------------- extract_email_address alone
\* the sequences over S of length at most n
SeqsUpTo(S, n) == UNION {[1..k -> S] : k \in 0..n}
\* the characters of the headers tried: a letter, and the four characters
\* the patterns tell apart
HeaderChars == {"j"} \cup NonAddrChars

\* The function is given any header of the bounded length.
InitHeader ==
    /\ from_header \in SeqsUpTo(HeaderChars, MaxHeaderLen)
    /\ sender_email = <<>>
    /\ content = <<>>
    /\ knowledge = <<>>
    /\ applied = "none"
    /\ InitSetting
    /\ InitDriver
    /\ inbox = [m \in MsgIds |-> Mailbox[m].user]
    /\ emails = <<>>
    /\ unhandled = <<>>
    /\ refunds = <<>>
    /\ notfound = <<>>
    /\ orders = [o \in {ValidOrderId} |-> StoredOrder(o, NullStatus)]
    /\ clock = StartTime
    /\ unread = MsgIds
    /\ pc = [t \in Tasks |-> "idle"]
    /\ passes = 0
    /\ pass = [t \in Tasks |-> 0]
    /\ user = [t \in Tasks |-> NoUser]
    /\ queue = [t \in Tasks |-> <<>>]
    /\ msg = [t \in Tasks |-> NoMsg]
    /\ local = [t \in Tasks |-> NoLocal]
    /\ sends = [m \in MsgIds |-> <<>>]
    /\ fetches = [m \in MsgIds |-> 0]
    /\ classified = [m \in MsgIds |-> 0]
    /\ marks = [m \in MsgIds |-> 0]
    /\ upserts = <<>>
    /\ crashes = 0

\* sender_email = self.extract_email_address(message_data['sender'])
ExtractSender ==
    /\ applied = "none"
    /\ applied' = "extract_email_address"
    /\ sender_email' = extract_email_address(from_header)
    /\ UNCHANGED <<tables, unread, tasks, effects, crashes, inbox, driver,
                   setting, from_header, content, knowledge>>

NextHeader == ExtractSender
SpecHeader == InitHeader /\ [][NextHeader]_vars

\* ------------------------------------------------- knowledge ingestion
\* A text is a sequence of characters: two letters, the space and the
\* newline.
TextChars == {"t", "b", " ", "\n"}
\* the characters str.strip() and str.split() take for whitespace
Whitespace == {" ", "\n"}
BlankLine == <<"\n", "\n">>

\* s.split(sep): the pieces between the occurrences of sep, found from the
\* left and not overlapping
RECURSIVE SplitOn(_, _)
SplitOn(s, sep) ==
    LET n == Len(sep)
        hits == {i \in 1..(Len(s) - n + 1) : SubSeq(s, i, i + n - 1) = sep}
    IN IF hits = {} THEN <<s>>
       ELSE LET i == Least(hits)
            IN <<SubSeq(s, 1, i - 1)>> \o SplitOn(SubSeq(s, i + n, Len(s)), sep)
\* s.strip()
Strip(s) ==
    LET keep == {i \in 1..Len(s) : s[i] \notin Whitespace}
    IN IF keep = {} THEN <<>> ELSE SubSeq(s, Least(keep), Greatest(keep))
\* sep.join(parts)
RECURSIVE Join(_, _)
Join(parts, sep) ==
    IF parts = <<>> THEN <<>>
    ELSE IF Len(parts) = 1 THEN parts[1]
    ELSE parts[1] \o sep \o Join(Tail(parts), sep)
\* s.split(): the runs of characters that are not whitespace
RECURSIVE Words(_)
Words(s) ==
    LET starts == {i \in 1..Len(s) : s[i] \notin Whitespace}
    IN IF starts = {} THEN <<>>
       ELSE LET i == Least(starts)
                stops == {j \in i..Len(s) : s[j] \in Whitespace}
                e == IF stops = {} THEN Len(s) ELSE Least(stops) - 1
            IN <<SubSeq(s, i, e)>> \o Words(SubSeq(s, e + 1, Len(s)))
\* [p.strip() for p in text.split('\n\n') if p.strip()]
RECURSIVE StripAll(_)
StripAll(parts) ==
    IF parts = <<>> THEN <<>>
    ELSE IF Strip(Head(parts)) = <<>> THEN StripAll(Tail(parts))
    ELSE <<Strip(Head(parts))>> \o StripAll(Tail(parts))
Sections(text) == StripAll(SplitOn(text, BlankLine))

\* what add_knowledge is called with: a title, the number of the part
\* when the title is "<title> (Part n)", and the content
Chunk(title, part, text) == [title |-> title, part |-> part, content |-> text]
Ellipsis == <<".", ".", ".">>

\* the add_knowledge call split_and_add_knowledge makes for one section,
\* if it makes one
SectionChunk(section) ==
    LET lines == SplitOn(section, <<"\n">>)
    IN IF Len(lines) >= 2
       THEN LET title == Strip(lines[1])
                section_content == Strip(Join(Tail(lines), <<"\n">>))
            IN IF title # <<>> /\ section_content # <<>>
               THEN <<Chunk(title, 0, section_content)>>
               ELSE <<>>
       ELSE LET words == Words(section)
            IN IF Len(words) > 3
               THEN <<Chunk(Join(SubSeq(words, 1, 3), <<" ">>) \o Ellipsis,
                            0, section)>>
               ELSE <<>>
RECURSIVE SectionChunks(_)
SectionChunks(sections) ==
    IF sections = <<>> THEN <<>>
    ELSE SectionChunk(Head(sections)) \o SectionChunks(Tail(sections))
\* RAGService.split_and_add_knowledge: the add_knowledge calls it makes
split_and_add_knowledge(text) == SectionChunks(Sections(text))

\* the for loop of split_text_into_chunks over the paragraphs left, with
\* the chunks made so far and the chunk being filled
RECURSIVE FillChunks(_, _, _, _)
FillChunks(paragraphs, chunks, current_chunk, chunk_size) ==
    IF paragraphs = <<>>
    THEN IF current_chunk # <<>> THEN Append(chunks, Strip(current_chunk))
         ELSE chunks
    ELSE LET paragraph == Head(paragraphs)
         IN IF /\ Len(current_chunk \o BlankLine \o paragraph) > chunk_size
               /\ current_chunk # <<>>
            THEN FillChunks(Tail(paragraphs),
                            Append(chunks, Strip(current_chunk)),
                            paragraph, chunk_size)
            ELSE FillChunks(Tail(paragraphs), chunks,
                            IF current_chunk # <<>>
                            THEN current_chunk \o BlankLine \o paragraph
                            ELSE paragraph,
                            chunk_size)
\* RAGService.split_text_into_chunks
split_text_into_chunks(text, chunk_size) ==
    FillChunks(Sections(text), <<>>, <<>>, chunk_size)
\* RAGService.add_knowledge_from_text: the add_knowledge calls it makes
add_knowledge_from_text(title, text, chunk_size) ==
    IF Len(text) <= chunk_size
    THEN <<Chunk(title, 0, text)>>
    ELSE LET chunks == split_text_into_chunks(text, chunk_size)
         IN [i \in 1..Len(chunks) |-> Chunk(title, i, chunks[i])]

\* The ingestion is given any text of the bounded length.
InitIngest ==
    /\ content \in SeqsUpTo(TextChars, MaxTextLen)
    /\ knowledge = <<>>
    /\ from_header = <<>>
    /\ sender_email = <<>>
    /\ applied = "none"
    /\ InitSetting
    /\ InitDriver
    /\ inbox = [m \in MsgIds |-> Mailbox[m].user]
    /\ emails = <<>>
    /\ unhandled = <<>>
    /\ refunds = <<>>
    /\ notfound = <<>>
    /\ orders = [o \in {ValidOrderId} |-> StoredOrder(o, NullStatus)]
    /\ clock = StartTime
    /\ unread = MsgIds
    /\ pc = [t \in Tasks |-> "idle"]
    /\ passes = 0
    /\ pass = [t \in Tasks |-> 0]
    /\ user = [t \in Tasks |-> NoUser]
    /\ queue = [t \in Tasks |-> <<>>]
    /\ msg = [t \in Tasks |-> NoMsg]
    /\ local = [t \in Tasks |-> NoLocal]
    /\ sends = [m \in MsgIds |-> <<>>]
    /\ fetches = [m \in MsgIds |-> 0]
    /\ classified = [m \in MsgIds |-> 0]
    /\ marks = [m \in MsgIds |-> 0]
    /\ upserts = <<>>
    /\ crashes = 0

\* await self.split_and_add_knowledge(content)
SplitAndAddKnowledge ==
    /\ applied = "none"
    /\ applied' = "split_and_add_knowledge"
    /\ knowledge' = split_and_add_knowledge(content)
    /\ UNCHANGED <<tables, unread, tasks, effects, crashes, inbox, driver,
                   setting, from_header, sender_email, content>>

\* await rag_service.add_knowledge_from_text(title, content, chunk_size)
AddKnowledgeFromText ==
    /\ applied = "none"
    /\ applied' = "add_knowledge_from_text"
    /\ knowledge' = add_knowledge_from_text(<<"t">>, content, ChunkSize)
    /\ UNCHANGED <<tables, unread, tasks, effects, crashes, inbox, driver,
                   setting, from_header, sender_email, content>>

NextIngest ==
    \/ SplitAndAddKnowledge
    \/ AddKnowledgeFromText
SpecIngest == InitIngest /\ [][NextIngest]_vars

\* ------------------------------------------------ several invalid ids
\* a second id that no order has, and a second customer
OtherInvalidOrderId == "XYZ998"
OtherCustomer == <<"d", "@", "x">>
\* a row of not_found_refund_requests written before the run
EarlierAttempt(id, customer, order_id) ==
    [id |-> id, customer_email |-> customer, invalid_order_id |-> order_id,
     email_content |-> "body-m0", attempt_count |-> 1]

\* The service starts on a database that holds attempts of earlier runs:
\* one of the customer of the mailboxes for the second invalid id, and one
\* of another customer for the first.  The second message is from either
\* customer, and the extractor can return either invalid id.
InitPairs ==
    /\ notfound =
          <<EarlierAttempt(1, extract_email_address(Mailbox["m1"].sender),
                           OtherInvalidOrderId),
            EarlierAttempt(2, OtherCustomer, InvalidOrderId)>>
    /\ headers \in {[m \in MsgIds |-> Mailbox[m].sender],
                    [m \in MsgIds |-> IF m = "m2" THEN OtherCustomer
                                      ELSE Mailbox[m].sender]}
    /\ extractable = ExtractedIds \cup {OtherInvalidOrderId}
    /\ InitBench
    /\ InitDriver
    /\ inbox = [m \in MsgIds |-> Mailbox[m].user]
    /\ emails = <<>>
    /\ unhandled = <<>>
    /\ refunds = <<>>
    /\ orders = [o \in {ValidOrderId} |-> StoredOrder(o, NullStatus)]
    /\ clock = StartTime
    /\ unread = MsgIds
    /\ pc = [t \in Tasks |-> "idle"]
    /\ passes = 0
    /\ pass = [t \in Tasks |-> 0]
    /\ user = [t \in Tasks |-> NoUser]
    /\ queue = [t \in Tasks |-> <<>>]
    /\ msg = [t \in Tasks |-> NoMsg]
    /\ local = [t \in Tasks |-> NoLocal]
    /\ sends = [m \in MsgIds |-> <<>>]
    /\ fetches = [m \in MsgIds |-> 0]
    /\ classified = [m \in MsgIds |-> 0]
    /\ marks = [m \in MsgIds |-> 0]
    /\ upserts = <<>>
    /\ crashes = 0
SpecPairs == InitPairs /\ [][Next]_vars

\* ------------------------------------------------- senders and owners
\* the customer address stored with the order
OwnerAddress == extract_email_address(Mailbox["m1"].sender)
\* an order stored with that customer_email
OwnedOrder(order_id) ==
    [StoredOrder(order_id, NullStatus) EXCEPT !.customer_email = OwnerAddress]

\* The order belongs to one address; the messages come both from it, one
\* from it and one from another address, or both from another address.
InitOwners ==
    /\ orders = [o \in {ValidOrderId} |-> OwnedOrder(o)]
    /\ headers \in {[m \in MsgIds |-> Mailbox[m].sender],
                    [m \in MsgIds |-> IF m = "m2" THEN OtherCustomer
                                      ELSE Mailbox[m].sender],
                    [m \in MsgIds |-> OtherCustomer]}
    /\ extractable = ExtractedIds
    /\ InitBench
    /\ InitDriver
    /\ inbox = [m \in MsgIds |-> Mailbox[m].user]
    /\ emails = <<>>
    /\ unhandled = <<>>
    /\ refunds = <<>>
    /\ notfound = <<>>
    /\ clock = StartTime
    /\ unread = MsgIds
    /\ pc = [t \in Tasks |-> "idle"]
    /\ passes = 0
    /\ pass = [t \in Tasks |-> 0]
    /\ user = [t \in Tasks |-> NoUser]
    /\ queue = [t \in Tasks |-> <<>>]
    /\ msg = [t \in Tasks |-> NoMsg]
    /\ local = [t \in Tasks |-> NoLocal]
    /\ sends = [m \in MsgIds |-> <<>>]
    /\ fetches = [m \in MsgIds |-> 0]
    /\ classified = [m \in MsgIds |-> 0]
    /\ marks = [m \in MsgIds |-> 0]
    /\ upserts = <<>>
    /\ crashes = 0
SpecOwners == InitOwners /\ [][Next]_vars

\* ------------------------------------------------------------- claims
\* rows of emails with this message id
RowsOf(m) == {i \in 1..Len(emails) : emails[i].gmail_message_id = m}
\* rows of refund_requests of this email
RefundsOf(email_id) == {i \in 1..Len(refunds) : refunds[i].email = email_id}
\* the places of a coroutine between the insert of the email row and the
\* end of process_single_email
HandlerPcs ==
    {"question", "q_save",
     "refund", "r_noid_create", "r_noid_save", "r_order_save", "r_order_send", "r_order_create",
     "r_order_done", "i_lookup", "i_upsert", "i_send", "i_create", "i_save",
     "other", "mark"}
\* a coroutine has just come back from process_single_email(m) in a call
\* other than the one that inserted m's row
ReturnedFromLaterCall(m) ==
    \E t \in Tasks, i \in RowsOf(m) :
        pc[t] = "loop" /\ msg[t] = m /\ pass[t] # emails[i].call
\* coroutine t takes a step (the run is not interrupted)
Moves(t) == pc'[t] # pc[t] /\ crashes' = crashes

\* C1: whatever calls of process_single_email are made, a message id has
\* at most one row in emails and at most one send_email call is made for it.
C1_OneRowOneSend ==
    \A m \in MsgIds : Cardinality(RowsOf(m)) <= 1 /\ Len(sends[m]) <= 1
\* m1 was processed, replied to, and processed a second time
C1_Witness ==
    /\ Len(sends["m1"]) = 1
    /\ ReturnedFromLaterCall("m1")

\* C2: when two calls for one message id have both passed the existence
\* check, at most one of them is ever past the insert, and the insert of
\* the other ends its call with no table written, no send, no mark-read.
C2_LoserStopsAtInsert ==
    /\ [](\A m \in MsgIds :
            Cardinality({t \in Tasks : msg[t] = m /\ pc[t] \in HandlerPcs}) <= 1)
    /\ [][\A t \in Tasks :
            (pc[t] = "create" /\ RowsOf(msg[t]) # {} /\ Moves(t))
            => /\ pc'[t] = "loop"
               /\ UNCHANGED <<tables, unread, sends, marks, upserts>>]_vars
\* one call has replied to m1 while the other, which had passed the check
\* as well, is about to insert
C2_Witness ==
    \E t, o \in Tasks :
        /\ t # o
        /\ pc[t] = "create" /\ msg[t] = "m1"
        /\ msg[o] = "m1" /\ pc[o] = "mark"
        /\ Len(sends["m1"]) = 1

\* C3: a call of process_single_email for a message id that has a row in
\* emails returns at once: no table, no mailbox label and no counter of
\* get_message, categorize_email, send_email or mark_as_read changes.
C3_GuardNoSideEffects ==
    [][\A t \in Tasks :
          (/\ pc[t] = "loop"
           /\ queue[t] # <<>>
           /\ RowsOf(Head(queue[t])) # {}
           /\ queue'[t] # queue[t]
           /\ crashes' = crashes)
          => /\ pc'[t] = "loop"
             /\ UNCHANGED <<tables, unread, effects>>]_vars
\* the guard has returned for m1: the one categorize_email and the one
\* mark_as_read for m1 are those of the call that inserted its row, and
\* the row is as that call left it
C3_Witness ==
    /\ ReturnedFromLaterCall("m1")
    /\ classified["m1"] = 1
    /\ marks["m1"] = 1
    /\ \E i \in RowsOf("m1") : ~ emails[i].response_sent

\* C4: every send_email for a message id is made by the call that
\* inserted the id's row in emails, which is there when the send is made;
\* so after an interruption a later call for that id sends nothing.
C4_RowBeforeSend ==
    \A m \in MsgIds :
        /\ sends[m] # <<>> => RowsOf(m) # {}
        /\ \A k \in 1..Len(sends[m]), i \in RowsOf(m) :
              sends[m][k].call = emails[i].call
        /\ \A t \in Tasks :
              (msg[t] = m /\ pc[t] \in HandlerPcs)
              => \E i \in RowsOf(m) : emails[i].call = Call(t)
\* the run was interrupted after m1's row was inserted and before a reply;
\* a later call for m1 has returned and there is still no reply
C4_Witness ==
    /\ crashes = 1
    /\ ReturnedFromLaterCall("m1")
    /\ sends["m1"] = <<>>
    /\ \E i \in RowsOf("m1") : emails[i].category = QUESTION
    /\ unhandled = <<>>

\* C5: response_sent of a row of emails is true only if a send_email call
\* for its message id returned True.
C5_SentOnlyWhenConfirmed ==
    \A i \in 1..Len(emails) :
        emails[i].response_sent
        => \E k \in 1..Len(sends[emails[i].gmail_message_id]) :
              sends[emails[i].gmail_message_id][k].ok

\* the handler of a refund email has finished in the branch of an
\* existing order
FinishedValidOrder(t) ==
    /\ pc[t] = "mark"
    /\ local[t].category = REFUND
    /\ local[t].order_id \in DOMAIN orders
\* C6: a refund email whose extracted id is that of an order: the order's
\* save sets refund_status requested and refund_requested_at to the email
\* row's processed_at; when the handler has finished the order is
\* requested, one send_email call was made, with the template that names
\* the order id, and the email has one refund_requests row, approved and
\* linked to the order.
C6_ValidOrderRefund ==
    /\ [](\A t \in Tasks :
            FinishedValidOrder(t)
            => /\ orders[local[t].order_id].refund_status = REQUESTED
               /\ Len(sends[msg[t]]) = 1
               /\ sends[msg[t]][1].text = RefundProcessedText(local[t].order_id)
               /\ sends[msg[t]][1].text.order_id = local[t].order_id
               /\ Cardinality(RefundsOf(local[t].email_id)) = 1
               /\ \A r \in RefundsOf(local[t].email_id) :
                     /\ refunds[r].status = "approved"
                     /\ refunds[r].order = local[t].order_id)
    /\ [][\A t \in Tasks :
            (pc[t] = "r_order_save" /\ Moves(t))
            => /\ orders'[local[t].order_id].refund_status = REQUESTED
               /\ orders'[local[t].order_id].refund_requested_at
                     = emails[local[t].email_id].processed_at
               /\ orders'[local[t].order_id].refund_requested_at >= StartTime]_vars
C6_Witness ==
    \E t \in Tasks :
        /\ FinishedValidOrder(t)
        /\ orders[local[t].order_id].refund_requested_at
              = emails[local[t].email_id].processed_at
        /\ Len(refunds) = 1

\* C7: every change of an order's refund_status is from null to requested.
C7_OnlyNullToRequested ==
    [][\A o \in DOMAIN orders :
          orders'[o].refund_status # orders[o].refund_status
          => /\ orders[o].refund_status = NullStatus
             /\ orders'[o].refund_status = REQUESTED]_vars

\* the writes to not_found_refund_requests made for a pair
UpsertsFor(customer, order_id) ==
    {k \in 1..Len(upserts) :
        /\ upserts[k].customer_email = customer
        /\ upserts[k].invalid_order_id = order_id}
\* rows of not_found_refund_requests of a pair
AttemptRows(customer, order_id) ==
    {i \in 1..Len(notfound) :
        /\ notfound[i].customer_email = customer
        /\ notfound[i].invalid_order_id = order_id}
Pairs == {<<upserts[k].customer_email, upserts[k].invalid_order_id>> :
             k \in 1..Len(upserts)}
Max(S) == CHOOSE x \in S : \A y \in S : y <= x
Min(S) == CHOOSE x \in S : \A y \in S : x <= y
\* the handler of a refund email has finished in the branch of an id
\* that no order has
FinishedInvalidOrder(t) ==
    /\ pc[t] = "mark"
    /\ local[t].category = REFUND
    /\ local[t].order_id # NoOrderId
    /\ local[t].order_id \notin DOMAIN orders

\* C8: refund emails with the same unmatched id from the same customer,
\* handled one after another: the pair has one row in
\* not_found_refund_requests, its attempt_count is the number of emails
\* handled for the pair, its email_content is the body of the latest one;
\* the reply to the first names the id with the first template and the
\* reply to each later one uses the other template; and each email whose
\* handler finished has its own refund_requests row, invalid_order_id.
C8_SequentialAttempts ==
    /\ \A p \in Pairs :
          LET ks == UpsertsFor(p[1], p[2])
              rows == AttemptRows(p[1], p[2])
          IN /\ Cardinality(rows) = 1
             /\ \A i \in rows :
                   /\ notfound[i].attempt_count = Cardinality(ks)
                   /\ notfound[i].email_content = Mailbox[upserts[Max(ks)].msg].body
             /\ \A k \in ks :
                   \A j \in 1..Len(sends[upserts[k].msg]) :
                      sends[upserts[k].msg][j].text =
                         IF k = Min(ks) THEN CannotFindText(p[2])
                         ELSE StillCannotFindText(p[2])
    /\ CannotFindText(InvalidOrderId) # StillCannotFindText(InvalidOrderId)
    /\ \A t \in Tasks :
          FinishedInvalidOrder(t)
          => /\ Cardinality(RefundsOf(local[t].email_id)) = 1
             /\ \A r \in RefundsOf(local[t].email_id) :
                   /\ refunds[r].status = "invalid_order_id"
                   /\ refunds[r].requested_order_id = local[t].order_id
\* the second email of the pair has been handled: the counter is 2, the
\* stored body is the second email's, two refund_requests rows, two
\* different reply texts
C8_Witness ==
    /\ Len(upserts) = 2
    /\ Len(notfound) = 1
    /\ notfound[1].attempt_count = 2
    /\ notfound[1].email_content = Mailbox[upserts[2].msg].body
    /\ Len(refunds) = 2
    /\ \A r \in 1..2 : refunds[r].status = "invalid_order_id"
    /\ refunds[1].email # refunds[2].email
    /\ Len(sends["m1"]) = 1 /\ Len(sends["m2"]) = 1
    /\ sends["m1"][1].text # sends["m2"][1].text

\* C9: also when the handlers of two emails of one pair overlap, the pair
\* has at most one row in not_found_refund_requests and its attempt_count
\* is the number of emails handled for the pair.
C9_AtomicUpsert ==
    \A p \in Pairs :
        /\ Cardinality(AttemptRows(p[1], p[2])) <= 1
        /\ \A i \in AttemptRows(p[1], p[2]) :
              notfound[i].attempt_count = Cardinality(UpsertsFor(p[1], p[2]))

\* the handler of a refund email has finished in the branch of no id
FinishedNoOrderId(t) ==
    /\ pc[t] = "mark"
    /\ local[t].category = REFUND
    /\ local[t].order_id = NoOrderId
\* C10: a refund email with no extracted id: one send_email call, with
\* the text that asks for the order id; one refund_requests row, status
\* waiting_for_order_id, no order; no write to not_found_refund_requests.
C10_NoOrderId ==
    \A t \in Tasks :
        FinishedNoOrderId(t)
        => /\ Len(sends[msg[t]]) = 1
           /\ sends[msg[t]][1].text = GeneratedText("ask-for-order-id")
           /\ Cardinality(RefundsOf(local[t].email_id)) = 1
           /\ \A r \in RefundsOf(local[t].email_id) :
                 /\ refunds[r].status = "waiting_for_order_id"
                 /\ refunds[r].order = NoOrderId
           /\ \A k \in 1..Len(upserts) : upserts[k].msg # msg[t]

\* rows of unhandled_emails of this email
UnhandledOf(email_id) ==
    {i \in 1..Len(unhandled) : unhandled[i].email = email_id}
\* the handler of a question email has finished and the knowledge search
\* had returned no chunk or the generator the INSUFFICIENT_INFO marker
FinishedUnanswerable(t) ==
    /\ pc[t] = "mark"
    /\ local[t].category = QUESTION
    /\ local[t].rag_outcome \in {"no-docs", "insufficient"}
\* C11: a question email for which the knowledge search returned no chunk
\* or the generator returned the marker: when its handler has finished the
\* email has exactly one unhandled_emails row, importance high, no
\* send_email call was made for it and its response_sent is false; and a
\* question email that has such a row never has a send or response_sent.
C11_UnanswerableQuestion ==
    /\ \A t \in Tasks :
          FinishedUnanswerable(t)
          => /\ Cardinality(UnhandledOf(local[t].email_id)) = 1
             /\ \A i \in UnhandledOf(local[t].email_id) :
                   unhandled[i].importance_level = HIGH
             /\ sends[msg[t]] = <<>>
             /\ ~ emails[local[t].email_id].response_sent
    /\ \A e \in 1..Len(emails) :
          (emails[e].category = QUESTION /\ UnhandledOf(e) # {})
          => /\ Cardinality(UnhandledOf(e)) = 1
             /\ sends[emails[e].gmail_message_id] = <<>>
             /\ ~ emails[e].response_sent
\* the generator returned the marker for m1 and its handler has finished
C11_Witness ==
    \E t \in Tasks :
        /\ FinishedUnanswerable(t)
        /\ msg[t] = "m1"
        /\ local[t].rag_outcome = "insufficient"
        /\ Len(unhandled) = 1
        /\ unhandled[1].importance_level = HIGH

\* the one send_email call made for a question email returned False
FailedQuestionSend(m) ==
    /\ \E e \in RowsOf(m) : emails[e].category = QUESTION
    /\ sends[m] # <<>>
    /\ ~ sends[m][1].ok
\* C12: a question email whose answer was available and whose send_email
\* returned False: response_sent stays false for the rest of the run and
\* no second send_email call is ever made for the message, by this call
\* or a later pass; the call that sent goes straight on to mark_as_read,
\* which it calls.
C12_FailedSendNotRetried ==
    /\ [](\A m \in MsgIds :
            FailedQuestionSend(m)
            => /\ Len(sends[m]) = 1
               /\ \A e \in RowsOf(m) : ~ emails[e].response_sent)
    /\ [][\A t \in Tasks :
            (/\ pc[t] = "question"
             /\ Moves(t)
             /\ sends'[msg[t]] # sends[msg[t]]
             /\ ~ sends'[msg[t]][Len(sends'[msg[t]])].ok)
            => /\ pc'[t] = "mark"
               /\ Len(sends'[msg[t]]) = 1
               /\ UNCHANGED tables]_vars
    /\ [][\A t \in Tasks :
            (pc[t] = "mark" /\ Moves(t))
            => /\ marks'[msg[t]] = marks[msg[t]] + 1
               /\ pc'[t] = "loop"]_vars
\* the send of the answer to m1 failed, the call went on to mark_as_read,
\* which failed too; a later pass has met m1 again and returned: still one
\* send, response_sent false
C12_Witness ==
    /\ FailedQuestionSend("m1")
    /\ sends["m1"][1].text = GeneratedText("answer")
    /\ marks["m1"] = 1
    /\ "m1" \in unread
    /\ ReturnedFromLaterCall("m1")
    /\ Len(sends["m1"]) = 1
    /\ \A e \in RowsOf("m1") : ~ emails[e].response_sent

\* the handler of an email categorized other has finished
FinishedOther(t) ==
    /\ pc[t] = "mark"
    /\ local[t].category = OTHERS
\* C13: an email categorized other: no send_email call is ever made for
\* it and its response_sent stays false; when its handler has finished it
\* has exactly one unhandled_emails row, whose importance is the tier
\* GeminiService.determine_importance returned.
C13_OtherNeverReplied ==
    /\ \A e \in 1..Len(emails) :
          emails[e].category = OTHERS
          => /\ sends[emails[e].gmail_message_id] = <<>>
             /\ ~ emails[e].response_sent
             /\ Cardinality(UnhandledOf(e)) <= 1
    /\ \A t \in Tasks :
          FinishedOther(t)
          => /\ Cardinality(UnhandledOf(local[t].email_id)) = 1
             /\ \A i \in UnhandledOf(local[t].email_id) :
                   LET tier == rate_importance(local[t].importance_text) IN
                   /\ tier = "HIGH" => unhandled[i].importance_level = HIGH
                   /\ tier = "MEDIUM" => unhandled[i].importance_level = MEDIUM
                   /\ tier = "LOW" => unhandled[i].importance_level = LOW
\* the classifier said other of m1 and rated it LOW; the handler has
\* finished
C13_Witness ==
    \E t \in Tasks :
        /\ FinishedOther(t)
        /\ msg[t] = "m1"
        /\ local[t].category_text = "other"
        /\ local[t].importance_text = "LOW"
        /\ Len(unhandled) = 1
        /\ unhandled[1].importance_level = LOW
        /\ sends["m1"] = <<>>

\* the model call of categorize_email raised in the current call of t
ClassifierFailed(t) == local[t].category_text = "error"
\* C14: when the model call of categorize_email raises, the call goes on:
\* it holds category other, its Email.create stores the row with category
\* other (unless another call has stored the message already) and goes to
\* handle_other_email, and no send_email call is made for the message.
C14_ClassifierFailureIsOther ==
    /\ [](\A t \in Tasks :
            ClassifierFailed(t)
            => /\ pc[t] \in {"create", "other", "mark"}
               /\ local[t].category = OTHERS
               /\ pc[t] \in {"other", "mark"}
                  => /\ sends[msg[t]] = <<>>
                     /\ \E e \in RowsOf(msg[t]) :
                           /\ e = local[t].email_id
                           /\ emails[e].category = OTHERS
                           /\ ~ emails[e].response_sent)
    /\ [][\A t \in Tasks :
            (/\ ClassifierFailed(t)
             /\ pc[t] = "create"
             /\ RowsOf(msg[t]) = {}
             /\ Moves(t))
            => /\ pc'[t] = "other"
               /\ Len(emails') = Len(emails) + 1
               /\ emails'[Len(emails')].gmail_message_id = msg[t]
               /\ emails'[Len(emails')].category = OTHERS]_vars
\* the classification of m1 failed; its row is stored as other and the
\* other handler has filed it
C14_Witness ==
    \E t \in Tasks :
        /\ ClassifierFailed(t)
        /\ pc[t] = "mark"
        /\ msg[t] = "m1"
        /\ emails[local[t].email_id].category = OTHERS
        /\ Cardinality(UnhandledOf(local[t].email_id)) = 1
        /\ sends["m1"] = <<>>

\* C15: when the model call of determine_importance raises while an
\* other email is handled, the handler still creates the email's
\* unhandled_emails row, and its importance is medium.
C15_ImportanceFailureIsMedium ==
    /\ [](\A t \in Tasks :
            (FinishedOther(t) /\ local[t].importance_text = "error")
            => /\ Cardinality(UnhandledOf(local[t].email_id)) = 1
               /\ \A i \in UnhandledOf(local[t].email_id) :
                     unhandled[i].importance_level = MEDIUM)
    /\ [][\A t \in Tasks :
            (pc[t] = "other" /\ Moves(t))
            => /\ pc'[t] = "mark"
               /\ Len(unhandled') = Len(unhandled) + 1
               /\ unhandled'[Len(unhandled')].email = local[t].email_id]_vars
\* the rating of m2 failed and its row is filed as medium
C15_Witness ==
    \E t \in Tasks :
        /\ FinishedOther(t)
        /\ msg[t] = "m2"
        /\ local[t].importance_text = "error"
        /\ \E i \in UnhandledOf(local[t].email_id) :
              unhandled[i].importance_level = MEDIUM

\* the places from which a handler returns to process_single_email
HandlerExits ==
    {"question", "q_save", "r_noid_save", "r_order_done", "i_save", "other"}
\* C16: mark_as_read is called only by a call whose handler has returned,
\* and whether it succeeds or fails the step writes no table (emails with
\* response_sent, unhandled_emails, refund_requests,
\* not_found_refund_requests, orders), makes no send, and ends the call
\* normally: the loop over the unread list goes on with what is left.
C16_MarkReadSwallowed ==
    /\ [][\A m \in MsgIds :
            marks'[m] # marks[m]
            => \E t \in Tasks :
                  /\ pc[t] = "mark" /\ msg[t] = m
                  /\ marks'[m] = marks[m] + 1
                  /\ pc'[t] = "loop"
                  /\ queue'[t] = queue[t]
                  /\ unread' \in {unread, unread \ {m}}
                  /\ UNCHANGED <<tables, sends, upserts>>]_vars
    /\ [][\A t \in Tasks :
            (pc'[t] = "mark" /\ pc[t] # "mark")
            => pc[t] \in HandlerExits]_vars
\* both messages lie in one mailbox; m1 was answered, its mark_as_read
\* failed, and the same pass has gone on to store m2
C16_Witness ==
    /\ marks["m1"] = 1
    /\ "m1" \in unread
    /\ \E e \in RowsOf("m1"), f \in RowsOf("m2") :
          /\ emails[e].response_sent
          /\ emails[e].call = emails[f].call
    /\ sends["m1"] # <<>>

\* C17: in a pass over a user's unread list the list is consumed only by
\* calling process_single_email on its head, whatever happened to the
\* message before; a call that has begun can always take its next step;
\* and the pass ends only when the list is exhausted.
C17_PassCoversUnreadList ==
    /\ [][\A t \in Tasks :
            (queue'[t] # queue[t] /\ pc[t] # "idle")
            => /\ pc[t] = "loop"
               /\ queue[t] # <<>>
               /\ msg'[t] = Head(queue[t])
               /\ queue'[t] = Tail(queue[t])]_vars
    /\ [][\A t \in Tasks :
            (pc[t] # "idle" /\ pc'[t] = "idle") => queue[t] = <<>>]_vars
    /\ [](\A t \in Tasks : pc[t] # "idle" => ENABLED Handle(t))
\* both messages lie in the first user's mailbox; in the first pass
\* get_message failed for m1 (fetched, never classified, no row) and the
\* same pass has stored m2
C17_Witness ==
    /\ inbox["m2"] = "u1"
    /\ passes = 1
    /\ fetches["m1"] = 1
    /\ classified["m1"] = 0
    /\ RowsOf("m1") = {}
    /\ \E f \in RowsOf("m2") : emails[f].call = 1

\* C18: in an iteration of the scheduler the list of users is consumed
\* only by calling process_user_emails on its head, whatever happened to
\* the users before; the iteration can always take its next step; and the
\* for loop is left only when the list is exhausted and the last call has
\* returned.
C18_RoundCoversUsers ==
    /\ [][(pending' # pending /\ sched_pc = "for")
          => /\ pending # <<>>
             /\ pending' = Tail(pending)
             /\ user'["sched"] = Head(pending)
             /\ pc'["sched"] = "loop"
             /\ passes' = passes + 1]_vars
    /\ [][(sched_pc = "for" /\ sched_pc' # "for")
          => pending = <<>> /\ pc["sched"] = "idle"]_vars
    /\ [](sched_pc = "for"
          => \/ ENABLED ProcessUser
             \/ ENABLED SchedSleep
             \/ ENABLED Handle("sched"))
\* in the first iteration list_messages failed for the first user, and
\* the second user's unread list has been fetched and is being processed
C18_Witness ==
    /\ rounds = 1
    /\ outage
    /\ user["sched"] = "u2"
    /\ pc["sched"] = "loop"
    /\ queue["sched"] = <<"m2">>
    /\ pending = <<>>

\* C19: once processing_active has been cleared, the call of
\* process_single_email in progress can run to its end, and the scheduler
\* begins process_user_emails for no further user of the iteration.
C19_StopBetweenUsers ==
    /\ []((~ processing_active /\ pc["sched"] # "idle")
           => ENABLED Handle("sched"))
    /\ [][(~ processing_active /\ sched_pc = "for")
          => /\ passes' = passes
             /\ pending' = pending]_vars

\* C20: when a list_messages call of an iteration has raised, the sleep
\* that ends the iteration is the one of the except clause, 60 seconds,
\* not the 30 seconds of a normal pass; and after the sleep the scheduler
\* is back at its while condition.
C20_OutageBacksOff ==
    /\ []((sched_pc = "sleep" /\ outage) => delay = ErrorDelay)
    /\ [][(sched_pc = "sleep" /\ sched_pc' # sched_pc)
          => sched_pc' = "while"]_vars

\* C21: no two calls of process_user_emails are in progress for the same
\* user at the same time, the manual trigger and the scheduler included.
C21_OnePassPerUser ==
    \A t, o \in Tasks :
        (t # o /\ pc[t] # "idle" /\ pc[o] # "idle") => user[t] # user[o]

\* w is an address as the second pattern sees it: characters of the
\* class, one "@", characters of the class
IsBareAddr(w) ==
    \E k \in 2..(Len(w) - 1) :
        /\ w[k] = "@"
        /\ \A x \in (1..Len(w)) \ {k} : IsAddrChar(w[x])
\* the header has an "@" with text on both sides between a "<" and a ">"
HasAngleAddr(h) ==
    \E i, j \in 1..Len(h) :
        /\ h[i] = "<" /\ h[j] = ">"
        /\ \E k \in (i + 2)..(j - 2) : h[k] = "@"
\* the bare addresses of the header, as <<first, last>> positions, each
\* as long as it can be
BareAddrs(h) ==
    {p \in (1..Len(h)) \X (1..Len(h)) :
        /\ p[1] < p[2]
        /\ IsBareAddr(SubSeq(h, p[1], p[2]))
        /\ p[1] = 1 \/ ~ IsAddrChar(h[p[1] - 1])
        /\ p[2] = Len(h) \/ ~ IsAddrChar(h[p[2] + 1])}
IsLine(s) ==
    /\ \A i \in 1..Len(s) : s[i] # "\n"
    /\ \E i \in 1..Len(s) : s[i] \notin Whitespace
\* the text is a title line, a blank line and a body of several lines
TitledSource(text, title, body) ==
    /\ text = title \o BlankLine \o body
    /\ IsLine(title) /\ Strip(title) = title
    /\ Strip(body) = body
    /\ Len(SplitOn(body, <<"\n">>)) >= 2
    /\ \A k \in 1..Len(SplitOn(body, <<"\n">>)) :
          IsLine(SplitOn(body, <<"\n">>)[k])
\* C23: split_and_add_knowledge of a title line, a blank line and a body
\* of several lines stores one chunk: its title is the title line and its
\* content the body lines.
C23_TitledSourceOneChunk ==
    applied = "split_and_add_knowledge"
    => \A n \in 1..Len(content) :
          TitledSource(content, SubSeq(content, 1, n),
                       SubSeq(content, n + 3, Len(content)))
          => /\ Len(knowledge) = 1
             /\ knowledge[1].title = SubSeq(content, 1, n)
             /\ knowledge[1].content = SubSeq(content, n + 3, Len(content))

\* the paragraphs of a text: what stands between its blank lines
Paragraphs(text) == SplitOn(text, BlankLine)
\* C24: add_knowledge_from_text of a text longer than chunk_size stores
\* the chunks of split_text_into_chunks: at least two, none longer than
\* chunk_size, each made of whole paragraphs, and joined with blank lines
\* they give the text back.
C24_ChunkRoundTrip ==
    (applied = "add_knowledge_from_text" /\ Len(content) > ChunkSize)
    => /\ Len(knowledge) >= 2
       /\ \A i \in 1..Len(knowledge) :
             /\ Len(knowledge[i].content) <= ChunkSize
             /\ \A k \in 1..Len(Paragraphs(knowledge[i].content)) :
                   \E q \in 1..Len(Paragraphs(content)) :
                      Paragraphs(knowledge[i].content)[k]
                         = Paragraphs(content)[q]
       /\ Join([i \in 1..Len(knowledge) |-> knowledge[i].content], BlankLine)
             = content

\* C25: a refund email has at most one refund_requests row, and exactly
\* one when its handler has finished; the row's status is
\* waiting_for_order_id when no id was extracted, approved when the id
\* is that of an order, invalid_order_id when it is the id of none; an
\* email that is not a refund email has no row; and refund emails that
\* name the same order have a row each.
C25_OneBranchPerRefundEmail ==
    /\ \A e \in 1..Len(emails) :
          /\ Cardinality(RefundsOf(e)) <= 1
          /\ emails[e].category # REFUND => RefundsOf(e) = {}
          /\ \A r \in RefundsOf(e) :
                LET id == refunds[r].requested_order_id IN
                /\ refunds[r].status \in
                      {"waiting_for_order_id", "approved", "invalid_order_id"}
                /\ refunds[r].status = "waiting_for_order_id" <=> id = NoOrderId
                /\ refunds[r].status = "approved" <=> id \in DOMAIN orders
                /\ refunds[r].status = "invalid_order_id"
                      <=> (id # NoOrderId /\ id \notin DOMAIN orders)
    /\ \A t \in Tasks :
          (pc[t] = "mark" /\ local[t].category = REFUND)
          => /\ Cardinality(RefundsOf(local[t].email_id)) = 1
             /\ \A r \in RefundsOf(local[t].email_id) :
                   refunds[r].requested_order_id = local[t].order_id
\* both refund emails named the order ORD001 and each has its approved row
C25_Witness ==
    /\ Len(refunds) = 2
    /\ refunds[1].email # refunds[2].email
    /\ \A r \in 1..2 :
          /\ refunds[r].status = "approved"
          /\ refunds[r].order = ValidOrderId

\* the (customer address, invalid id) key of a row
PairOf(row) == <<row.customer_email, row.invalid_order_id>>
\* C26: the write handle_invalid_order_id makes for a pair creates that
\* pair's row or changes that pair's row; every row of another pair (the
\* same customer with another id, another customer with the same id)
\* keeps its counter and its stored body; and nothing else writes the
\* table.
C26_PairsIndependent ==
    /\ [][\A t \in Tasks :
            (pc[t] = "i_upsert" /\ Moves(t))
            => LET key == <<local[t].sender, local[t].order_id>> IN
               /\ Len(notfound') \in {Len(notfound), Len(notfound) + 1}
               /\ \A i \in 1..Len(notfound) :
                     PairOf(notfound[i]) # key => notfound'[i] = notfound[i]
               /\ \A i \in 1..Len(notfound') :
                     (i > Len(notfound) \/ notfound'[i] # notfound[i])
                     => PairOf(notfound'[i]) = key]_vars
    /\ [][notfound' # notfound
          => \E t \in Tasks : pc[t] = "i_upsert" /\ pc'[t] = "i_send"]_vars
\* the customer has sent the first invalid id twice: that pair's row
\* counts 2, while the customer's row for the other id and the other
\* customer's row for the same id are as they were
C26_Witness ==
    /\ Len(notfound) = 3
    /\ notfound[3].attempt_count = 2
    /\ notfound[3].invalid_order_id = InvalidOrderId
    /\ notfound[3].customer_email = notfound[1].customer_email
    /\ notfound[1] = EarlierAttempt(1, notfound[3].customer_email,
                                    OtherInvalidOrderId)
    /\ notfound[2] = EarlierAttempt(2, OtherCustomer, InvalidOrderId)

\* C27: a refund_requests row has an order exactly when its status is
\* approved; the order of an approved row exists and its refund_status
\* is not null; waiting_for_order_id and invalid_order_id rows have none.
C27_OrderLinkIffApproved ==
    \A r \in 1..Len(refunds) :
        /\ refunds[r].order # NoOrderId <=> refunds[r].status = "approved"
        /\ refunds[r].status = "approved"
           => /\ refunds[r].order \in DOMAIN orders
              /\ orders[refunds[r].order].refund_status # NullStatus
        /\ refunds[r].status \in {"waiting_for_order_id", "invalid_order_id"}
           => refunds[r].order = NoOrderId
\* an approved row linked to the requested order, beside a row of
\* another branch with no order
C27_Witness ==
    /\ Len(refunds) = 2
    /\ refunds[1].status = "approved"
    /\ refunds[1].order = ValidOrderId
    /\ orders[ValidOrderId].refund_status = REQUESTED
    /\ refunds[2].status = "invalid_order_id"
    /\ refunds[2].order = NoOrderId

\* C28: an email has at most one unhandled_emails row, and none that has
\* one has response_sent true; a row of unhandled_emails, once created,
\* is never changed or removed.
C28_UnhandledOnePerEmail ==
    /\ [](\A e \in 1..Len(emails) :
            /\ Cardinality(UnhandledOf(e)) <= 1
            /\ UnhandledOf(e) # {} => ~ emails[e].response_sent)
    /\ [](\A i \in 1..Len(unhandled) : unhandled[i].email \in 1..Len(emails))
    /\ [][/\ Len(unhandled') >= Len(unhandled)
          /\ \A i \in 1..Len(unhandled) : unhandled'[i] = unhandled[i]]_vars
\* m1 was a question without an answer and m2 an other email: each has
\* its row, neither has response_sent, and a later pass has met m1 again
C28_Witness ==
    /\ Len(unhandled) = 2
    /\ unhandled[1].email # unhandled[2].email
    /\ \E e \in RowsOf("m1") :
          emails[e].category = QUESTION /\ UnhandledOf(e) # {}
    /\ \E e \in RowsOf("m2") :
          emails[e].category = OTHERS /\ UnhandledOf(e) # {}
    /\ \A e \in 1..Len(emails) : ~ emails[e].response_sent

\* the handler of a question email has finished and the model call of
\* generate_response had raised
FinishedGenerationFailure(t) ==
    /\ pc[t] \in {"q_save", "mark"}
    /\ local[t].category = QUESTION
    /\ local[t].rag_outcome = "generate-error"
\* C29: when the model call behind answer generation fails for a question
\* email, no send_email call is made for it and it gets an
\* unhandled_emails row.
C29_GenerationFailureNoReply ==
    \A t \in Tasks :
        FinishedGenerationFailure(t)
        => /\ sends[msg[t]] = <<>>
           /\ UnhandledOf(local[t].email_id) # {}

\* the handler of a persisted email has returned to process_single_email
Handled(t) ==
    /\ pc[t] = "mark"
    /\ local[t].email_id \in 1..Len(emails)
\* C30: once the handler of a persisted email has completed, the email has
\* response_sent true or an unhandled_emails row.
C30_ReplyOrReview ==
    \A t \in Tasks :
        Handled(t)
        => \/ emails[local[t].email_id].response_sent
           \/ UnhandledOf(local[t].email_id) # {}

\* the step in which get_message returned None and process_single_email
\* returned
FailedFetch(t) == pc[t] = "fetch" /\ pc'[t] = "loop"
\* C31: a call of process_single_email whose get_message fails changes no
\* table, classifies nothing, sends nothing and marks nothing as read; a
\* message without an Email row is still unread, without send or
\* mark-read, so a later pass lists it and passes the guard.
C31_FailedFetchNoEffect ==
    /\ [][\A t \in Tasks :
            FailedFetch(t)
            => /\ UNCHANGED <<tables, unread, sends, classified, marks,
                              upserts>>
               /\ fetches' = [fetches EXCEPT ![msg[t]] = @ + 1]]_vars
    /\ [](\A m \in MsgIds :
            EmailsFor(m) = {}
            => /\ m \in unread
               /\ sends[m] = <<>>
               /\ marks[m] = 0)
\* the fetch of m1 failed in the first pass and the second pass handled
\* m1 in full: one classification, its row, its unhandled row, mark-read
C31_Witness ==
    /\ crashes = 0
    /\ fetches["m1"] = 2
    /\ classified["m1"] = 1
    /\ marks["m1"] = 1
    /\ "m1" \notin unread
    /\ \E e \in RowsOf("m1") :
          /\ emails[e].category = OTHERS
          /\ emails[e].call = 2
          /\ UnhandledOf(e) # {}

\* m has its Email row, is unread, and the call that inserted the row is
\* over: its mark_as_read failed or it was interrupted before it
LeftUnread(m) ==
    /\ RowsOf(m) # {}
    /\ m \in unread
    /\ \A t \in Tasks : ~ (msg[t] = m /\ pc[t] \in HandlerPcs)
FromOwner(r) ==
    /\ refunds[r].order \in DOMAIN orders
    /\ refunds[r].customer_email = orders[refunds[r].order].customer_email
\* C34: when an order id was extracted, handle_refund_request goes to
\* the branch of an existing order exactly when an Order has that id, and
\* that branch sets the order's refund_status to requested and
\* refund_requested_at to the email's processed_at, whoever sent the
\* email: two refund_requests rows that name the same order id have the
\* same status and the same order, whether or not their customer_email
\* is the order's.
C34_SenderIndependent ==
    /\ [][\A t \in Tasks :
            (pc[t] = "refund" /\ Moves(t)
             /\ local'[t].order_id # NoOrderId)
            => pc'[t] = IF local'[t].order_id \in DOMAIN orders
                        THEN "r_order_save" ELSE "i_lookup"]_vars
    /\ [][\A t \in Tasks :
            (pc[t] = "r_order_save" /\ Moves(t))
            => orders' = [orders EXCEPT ![local[t].order_id] =
                   [@ EXCEPT !.refund_status = REQUESTED,
                             !.refund_requested_at =
                                 emails[local[t].email_id].processed_at]]]_vars
    /\ [](\A r1, r2 \in 1..Len(refunds) :
            (/\ refunds[r1].requested_order_id # NoOrderId
             /\ refunds[r1].requested_order_id = refunds[r2].requested_order_id)
            => /\ refunds[r1].status = refunds[r2].status
               /\ refunds[r1].order = refunds[r2].order)
    /\ [](\A r \in 1..Len(refunds) :
            refunds[r].requested_order_id \in DOMAIN orders
            => /\ refunds[r].status = "approved"
               /\ orders[refunds[r].order].refund_status = REQUESTED)
\* two refund emails named the same order, one from the order's customer
\* and one from another address: both were approved against the order
C34_Witness ==
    /\ Len(refunds) = 2
    /\ \A r \in 1..2 : refunds[r].status = "approved"
    /\ refunds[1].order = refunds[2].order
    /\ \E r, q \in 1..2 : FromOwner(r) /\ ~ FromOwner(q)
    /\ orders[refunds[1].order].refund_status = REQUESTED
====
